---- MODULE Spec2Model ----
(***************************************************************************)
(* A model of the Aegis compiler front end: the Scribe (lexer), the        *)
(* Architect (parser), the Guardian's symbol table and analysis pass.      *)
(* Source bytes are modelled as their integer values, tokens as records.   *)
(***************************************************************************)
EXTENDS Integers, Sequences, FiniteSets, TLC

VARIABLES
    \* ---- Scribe (lexer): src/Aegis_Compiler/Src/mod.rs
    input,          \* the source buffer, a sequence of byte values
    position,       \* Scribe.position
    read_position,  \* Scribe.read_position
    ch,             \* Scribe.ch
    tokens,         \* the tokens returned so far by next_token, in order
    \* ---- SymbolTable: src/Aegis_Compiler/Src/Guardian /symbol table.rs
    symbol_table,   \* a scope chain: <<current store, its outer store, ...>>
    define_log,     \* the define calls made so far: [depth, name, ty, kind, ok]
    \* ---- Architect (parser): src/Aegis_Compiler/Src/Architect/mod.rs
    toks,           \* the tokens the Scribe yields before end-of-file
    pos,            \* index of current_token in the stream (peek_token is pos + 1)
    errors,         \* Architect.errors
    definitions,    \* program.definitions
    pc,             \* the loop of parse_program the parser stands in
    pending,        \* the definition under construction
    frames,         \* the open parse_map_literal calls, innermost last
    \* ---- Guardian (semantic analyzer): src/Aegis_Compiler/Src/Guardian /mod.rs
    g_errors,       \* Guardian.errors
    g_next,         \* index of the definition check_program checks next
    g_first,        \* the Program and diagnostics of an earlier analysis run, if any
    g_call,         \* the last check_contract_initializer call and its result, if any
    \* ---- Lowerer: src/Aegis_Compiler/Src/Engine /lowerer.rs
    label_counter,  \* Lowerer.label_counter
    sequences,      \* lower_program's sequences
    main_seq,       \* lower_program's main_seq
    l_next,         \* index of the definition lower_program's loop takes next
    l_pc            \* where the Lowerer stands: "new", "loop" or "returned"

lexVars == <<input, position, read_position, ch, tokens>>
symVars == <<symbol_table, define_log>>
parseVars == <<toks, pos, errors, definitions, pc, pending, frames>>
guardVars == <<g_errors, g_next, g_first, g_call>>
lowerVars == <<label_counter, sequences, main_seq, l_next, l_pc>>

vars == <<lexVars, symVars, parseVars, guardVars, lowerVars>>

-----------------------------------------------------------------------------
\* Bounds of the lexer model.

\* Longest source buffer that is enumerated byte by byte.
MaxLen == 4
\* next_token calls allowed beyond one per input byte (calls after end-of-file).
MaxExtraCalls == 2

\* The bytes the enumerated inputs are built from:
\* NUL, '\n', ' ', '"', '#', '1', '=', '@', 'a'.
LexAlphabet == {0, 10, 32, 34, 35, 49, 61, 64, 97}

\* Fixed longer inputs taken from the repository's tests.
SampleInputs ==
    { <<108, 101, 116, 39, 115, 32, 120, 32, 61, 32, 52, 50>>,              \* let's x = 42
      <<108, 101, 116, 39, 115, 32, 120, 32, 61, 32, 34, 97, 98, 99>>,      \* let's x = "abc
      <<120, 32, 61, 62, 32, 121, 32, 33, 61, 32, 34, 35, 34>> }            \* x => y != "#"

BoundedInputs == UNION { [1..n -> LexAlphabet] : n \in 0..MaxLen }

-----------------------------------------------------------------------------
\* Scribe: a scribe state is a record [position, read_position, ch]; the
\* buffer is the variable input.  Byte i of the buffer (0-based) is input[i+1].

ScribeState(p, rp, c) == [position |-> p, read_position |-> rp, ch |-> c]

read_char(s) ==
    [ ch            |-> IF s.read_position >= Len(input) THEN 0
                        ELSE input[s.read_position + 1],
      position      |-> s.read_position,
      read_position |-> s.read_position + 1 ]

peek_char(s) ==
    IF s.read_position >= Len(input) THEN 0 ELSE input[s.read_position + 1]

\* Scribe::new: all fields zero, then one read_char.
ScribeNew == read_char(ScribeState(0, 0, 0))

is_ascii_alphabetic(c) == (c >= 65 /\ c <= 90) \/ (c >= 97 /\ c <= 122)
is_ascii_digit(c) == c >= 48 /\ c <= 57

\* The inner loop of the '#' arm: while ch != '\n' && ch != 0 { read_char }.
RECURSIVE SkipComment(_)
SkipComment(s) ==
    IF s.ch # 10 /\ s.ch # 0 THEN SkipComment(read_char(s)) ELSE s

RECURSIVE skip_whitespace(_)
skip_whitespace(s) ==
    IF s.ch \in {32, 9, 10, 13} THEN skip_whitespace(read_char(s))
    ELSE IF s.ch = 35 THEN skip_whitespace(SkipComment(s))
    ELSE s

Tok(kind, text, start, end) ==
    [kind |-> kind, text |-> text, start |-> start, end |-> end]

Slice(start, end) == SubSeq(input, start + 1, end)

\* The keyword table of read_identifier.
KeywordKind(literal) ==
    CASE literal = <<108, 101, 116, 39, 115>> -> "Let"
      [] literal = <<97, 112, 112>> -> "App"
      [] literal = <<116, 114, 97, 99, 107>> -> "Track"
      [] literal = <<119, 104, 101, 110>> -> "When"
      [] literal = <<105, 102>> -> "If"
      [] literal = <<101, 108, 115, 101>> -> "Else"
      [] literal = <<116, 114, 117, 101>> -> "True"
      [] literal = <<102, 97, 108, 115, 101>> -> "False"
      [] literal = <<99, 111, 110, 116, 114, 97, 99, 116>> -> "Contract"
      [] literal = <<102, 111, 114>> -> "For"
      [] literal = <<105, 110>> -> "In"
      [] literal = <<105, 115>> -> "Is"
      [] literal = <<97, 115, 121, 110, 99>> -> "Async"
      [] literal = <<97, 119, 97, 105, 116>> -> "Await"
      [] literal = <<115, 104, 111, 119>> -> "Show"
      [] literal = <<110, 111, 116, 104, 105, 110, 103>> -> "Nothing"
      [] literal = <<114, 101, 116, 117, 114, 110>> -> "Return"
      [] literal = <<101, 110, 117, 109>> -> "Enum"
      [] OTHER -> "Identifier"

\* The scanning loop of read_identifier.
RECURSIVE IdentifierLoop(_)
IdentifierLoop(s) ==
    IF is_ascii_alphabetic(s.ch) \/ s.ch = 95 \/ s.ch = 39
    THEN IdentifierLoop(read_char(s)) ELSE s

read_identifier(s) ==
    LET start == s.position
        s1 == IdentifierLoop(s)
        end == s1.position
        literal == Slice(start, end)
        kind == KeywordKind(literal)
    IN  [ tok |-> Tok(kind, IF kind = "Identifier" THEN literal ELSE <<>>, start, end),
          s |-> s1 ]

RECURSIVE NumberLoop(_)
NumberLoop(s) == IF is_ascii_digit(s.ch) THEN NumberLoop(read_char(s)) ELSE s

read_number(s) ==
    LET start == s.position
        s1 == NumberLoop(s)
        end == s1.position
    IN  [ tok |-> Tok("Number", Slice(start, end), start, end), s |-> s1 ]

\* loop { read_char; if ch == '"' || ch == 0 { break } }
RECURSIVE StringLoop(_)
StringLoop(s) ==
    LET s1 == read_char(s)
    IN  IF s1.ch = 34 \/ s1.ch = 0 THEN s1 ELSE StringLoop(s1)

\* read_string with the span of a terminated literal ending before its closing quote.
read_string_open_span(s) ==
    LET start_pos == s.position
        start == s.position + 1
        s1 == StringLoop(s)
        end == s1.position
    IN  IF s1.ch = 0
        THEN [ tok |-> Tok("Illegal", <<34>>, start_pos, end + 1), s |-> s1 ]
        ELSE [ tok |-> Tok("String", Slice(start, end), start_pos, end),
               s |-> read_char(s1) ]

read_string(s) ==
    LET start_pos == s.position
        start == s.position + 1
        s1 == StringLoop(s)
        end == s1.position
    IN  IF s1.ch = 0
        THEN [ tok |-> Tok("Illegal", <<34>>, start_pos, end + 1), s |-> s1 ]
        ELSE [ tok |-> Tok("String", Slice(start, end), start_pos, end + 1),
               s |-> read_char(s1) ]

\* The one-byte operator and delimiter arms of next_token.
SingleKind(c) ==
    CASE c = 62 -> "GreaterThan"
      [] c = 60 -> "LessThan"
      [] c = 43 -> "Plus"
      [] c = 45 -> "Minus"
      [] c = 42 -> "Asterisk"
      [] c = 47 -> "Slash"
      [] c = 46 -> "Dot"
      [] c = 40 -> "LParen"
      [] c = 41 -> "RParen"
      [] c = 123 -> "LBrace"
      [] c = 125 -> "RBrace"
      [] c = 91 -> "LBracket"
      [] c = 93 -> "RBracket"
      [] c = 58 -> "Colon"
      [] c = 44 -> "Comma"
      [] OTHER -> "Illegal"

next_token(s0) ==
    LET s == skip_whitespace(s0)
        start == s.position
        c == s.ch
        \* the arms that end in the common trailing read_char
        two(kind) == LET s1 == read_char(s)
                     IN  [ tok |-> Tok(kind, <<>>, start, s1.position + 1),
                           s |-> read_char(s1) ]
        one(kind) == [ tok |-> Tok(kind, <<>>, start, start + 1), s |-> read_char(s) ]
    IN  IF c = 61 THEN
            IF peek_char(s) = 62 THEN two("FatArrow")
            ELSE IF peek_char(s) = 61 THEN two("Equals")
            ELSE one("Assign")
        ELSE IF c = 33 THEN
            IF peek_char(s) = 61 THEN two("NotEquals") ELSE one("Bang")
        ELSE IF is_ascii_alphabetic(c) \/ c = 95 THEN read_identifier(s)
        ELSE IF is_ascii_digit(c) THEN read_number(s)
        ELSE IF c = 34 THEN read_string(s)
        ELSE IF c = 0 THEN [ tok |-> Tok("Eof", <<>>, start, start), s |-> read_char(s) ]
        ELSE IF SingleKind(c) = "Illegal"
             THEN [ tok |-> Tok("Illegal", <<c>>, start, start + 1), s |-> read_char(s) ]
        ELSE one(SingleKind(c))

-----------------------------------------------------------------------------
\* SymbolTable.  A table is a non-empty sequence of stores, the current scope
\* first and each outer scope after it; a store is a function from the names
\* defined in that scope to their Symbol.

EmptyStore == [n \in {} |-> n]

\* SymbolTable::default(): one empty store, no outer scope.
SymbolTableDefault == <<EmptyStore>>

Symbol(name, kind, ty) == [name |-> name, kind |-> kind, ty |-> ty]

new_enclosed(outer) == <<EmptyStore>> \o outer

\* define with the contains_key check left out: a redefinition replaces the symbol.
define_overwriting(table, name, ty, kind) ==
    [ ok |-> name \notin DOMAIN table[1],
      table |-> [table EXCEPT ![1] =
                    [n \in DOMAIN table[1] \cup {name} |->
                        IF n = name THEN Symbol(name, kind, ty) ELSE table[1][n]]] ]

\* define returns the bool result and the table after the call.
define(table, name, ty, kind) ==
    IF name \in DOMAIN table[1]
    THEN [ok |-> FALSE, table |-> table]
    ELSE [ ok |-> TRUE,
           table |-> [table EXCEPT ![1] =
                        [n \in DOMAIN table[1] \cup {name} |->
                            IF n = name THEN Symbol(name, kind, ty) ELSE table[1][n]]] ]

NoSymbol == [name |-> "", kind |-> [k |-> "None"], ty |-> [t |-> "None"]]

\* resolve: the current scope first, then outwards; NoSymbol models None.
RECURSIVE resolve(_, _)
resolve(table, name) ==
    IF name \in DOMAIN table[1] THEN table[1][name]
    ELSE IF Len(table) = 1 THEN NoSymbol
    ELSE resolve(Tail(table), name)

-----------------------------------------------------------------------------
\* Bounds of the symbol-table model.

\* define calls made in one run.
MaxDefines == 4
\* Nesting depth of scopes in one run.
MaxDepth == 2

SymNames == {"a", "b"}
SymTypes == {[t |-> "Number"], [t |-> "String"]}
SymKinds == {[k |-> "Variable", is_tracked |-> FALSE], [k |-> "Type"]}

-----------------------------------------------------------------------------
\* Architect (parser).  The Scribe's output is the token stream toks followed
\* by end-of-file tokens; token i has span i.  The Architect's current_token
\* is token pos and its peek_token is token pos + 1, so Architect::next_token
\* is pos + 1.  Architect::new leaves pos = 1.

PTok(kind, text) == [kind |-> kind, text |-> text]

EofToken == PTok("Eof", "")

TokAt(i) == IF i >= 1 /\ i <= Len(toks) THEN toks[i] ELSE EofToken

Kind(p) == TokAt(p).kind
Text(p) == TokAt(p).text

ParseError(message, span) == [message |-> message, span |-> span]

NoExpr == [e |-> "None"]
NoPending == [p |-> "None"]
NoAnnotation == [some |-> FALSE]
SomeAnnotation(name) == [some |-> TRUE, name |-> name]

\* AST nodes.
NumberLit(v, span) == [e |-> "Number", v |-> v, span |-> span]
StringLit(v, span) == [e |-> "String", v |-> v, span |-> span]
IdentifierExpr(name, span) == [e |-> "Identifier", name |-> name, span |-> span]
MapLit(pairs, span) == [e |-> "Map", pairs |-> pairs, span |-> span]

LetDefinition(head, value) ==
    [ def |-> "Let", name |-> head.name, is_tracked |-> head.is_tracked,
      type_annotation |-> head.type_annotation, value |-> value, span |-> head.span ]

ContractDefinition(head, fields) ==
    [ def |-> "Contract", name |-> head.name, generic_params |-> head.generic_params,
      fields |-> fields, span |-> head.span ]

AppDefinition(head) == [def |-> "App", name |-> head.name, span |-> head.span]

EnumDefinition(head) ==
    [def |-> "Enum", name |-> head.name, variants |-> <<>>, span |-> head.span]

\* The tokens parse_simple_expression turns into an expression on the spot.
IsTerminal(p) == Kind(p) \in {"Number", "String", "Identifier"}

TerminalExpr(p) ==
    CASE Kind(p) = "Number" -> NumberLit(Text(p), p)
      [] Kind(p) = "String" -> StringLit(Text(p), p)
      [] OTHER -> IdentifierExpr(Text(p), p)

\* The outcome of a piece of parsing: where the parser stands afterwards.
\*   pc     the loop the parser is in next ("top" after a definition attempt)
\*   pos    the current token
\*   errs   the ParseErrors pushed
\*   frames the open map literals
\*   defs   the definitions pushed onto program.definitions
\*   head   the definition under construction
Outcome(pc_, pos_, errs_, frames_, defs_, head_) ==
    [ pc |-> pc_, pos |-> pos_, errs |-> errs_, frames |-> frames_,
      defs |-> defs_, head |-> head_ ]

\* A definition attempt returned None with current_token at p: parse_program's
\* None arm then skips one token.
Failed(p, errs) == Outcome("top", p + 1, errs, <<>>, <<>>, NoPending)

\* ---- contract header

\* while current is ',' { next_token; Identifier => push, next_token; else error }
RECURSIVE GenericParamLoop(_, _)
GenericParamLoop(p, params) ==
    IF Kind(p) = "Comma"
    THEN IF Kind(p + 1) = "Identifier"
         THEN GenericParamLoop(p + 2, Append(params, Text(p + 1)))
         ELSE [ ok |-> FALSE, pos |-> p + 1, params |-> params,
                errs |-> <<ParseError("Expected generic parameter name after comma", p + 1)>> ]
    ELSE [ok |-> TRUE, pos |-> p, params |-> params, errs |-> <<>>]

\* The optional <T, U, ...> of a contract, with current_token at p.
GenericParams(p) ==
    IF Kind(p) # "LessThan"
    THEN [ok |-> TRUE, pos |-> p, params |-> <<>>, errs |-> <<>>]
    ELSE IF Kind(p + 1) # "Identifier"
    THEN [ ok |-> FALSE, pos |-> p + 1, params |-> <<>>,
           errs |-> <<ParseError("Expected generic parameter name after '<'", p + 1)>> ]
    ELSE LET r == GenericParamLoop(p + 2, <<Text(p + 1)>>)
         IN  IF ~r.ok THEN r
             ELSE IF Kind(r.pos) # "GreaterThan"
             THEN [ ok |-> FALSE, pos |-> r.pos, params |-> r.params,
                    errs |-> <<ParseError("Expected '>' to close generic parameters", r.pos)>> ]
             ELSE [r EXCEPT !.pos = r.pos + 1]

\* parse_contract_definition up to its field loop; current_token p is 'contract'.
ContractHeader(p) ==
    IF Kind(p + 1) # "Identifier"
    THEN Failed(p + 1, <<ParseError("Expected contract name", p + 1)>>)
    ELSE LET g == GenericParams(p + 2)
         IN  IF ~g.ok THEN Failed(g.pos, g.errs)
             ELSE IF Kind(g.pos) # "Colon"
             THEN Failed(g.pos, <<ParseError("Expected ':' after contract name", g.pos)>>)
             ELSE Outcome("fields", g.pos + 1, <<>>, <<>>, <<>>,
                          [ name |-> Text(p + 1), generic_params |-> g.params,
                            fields |-> <<>>, span |-> p ])

\* The field loop runs while current is none of Eof, Let, Contract, App.
InFieldLoop(p) == Kind(p) \notin {"Eof", "Let", "Contract", "App"}

ContractField(name, type_name, type_span, span) ==
    [ name |-> name, type_ann |-> [ti |-> "Simple", name |-> type_name, span |-> type_span],
      span |-> span ]

\* One iteration of the field loop that leaves a non-identifier token in place.
ContractFieldIterationStuck(p, head) ==
    IF Kind(p) = "Identifier"
    THEN IF Kind(p + 1) = "Colon"
         THEN IF Kind(p + 2) = "Identifier"
              THEN Outcome("fields", p + 3, <<>>, <<>>, <<>>,
                     [head EXCEPT !.fields =
                         Append(@, ContractField(Text(p), Text(p + 2), p + 3, p))])
              ELSE Outcome("fields", p + 2,
                     <<ParseError("Expected type annotation", p + 2)>>, <<>>, <<>>, head)
         ELSE Outcome("fields", p + 2, <<>>, <<>>, <<>>, head)
    ELSE Outcome("fields", p, <<>>, <<>>, <<>>, head)

\* One iteration of the field loop of parse_contract_definition.
ContractFieldIteration(p, head) ==
    IF Kind(p) = "Identifier"
    THEN IF Kind(p + 1) = "Colon"
         THEN IF Kind(p + 2) = "Identifier"
              THEN Outcome("fields", p + 3, <<>>, <<>>, <<>>,
                     [head EXCEPT !.fields =
                         Append(@, ContractField(Text(p), Text(p + 2), p + 3, p))])
              ELSE Outcome("fields", p + 2,
                     <<ParseError("Expected type annotation", p + 2)>>, <<>>, <<>>, head)
         ELSE Outcome("fields", p + 2, <<>>, <<>>, <<>>, head)
    ELSE Outcome("fields", p + 1, <<>>, <<>>, <<>>, head)

\* ---- app and enum

InAppLoop(p) == Kind(p) \notin {"Eof", "Let", "Contract", "App"}
InEnumLoop(p) == Kind(p) \notin {"Eof", "Let", "Contract", "App", "Enum"}

\* parse_app_definition up to its skipping loop; current_token p is 'app'.
AppHeader(p) ==
    IF Kind(p + 1) # "Identifier"
    THEN Failed(p + 1, <<ParseError("Expected app name", p + 1)>>)
    ELSE Outcome("appskip", p + 2, <<>>, <<>>, <<>>, [name |-> Text(p + 1), span |-> p])

\* parse_enum_definition up to its skipping loop; current_token p is 'enum'.
EnumHeader(p) ==
    IF Kind(p + 1) # "Identifier"
    THEN Failed(p + 1, <<ParseError("Expected enum name", p + 1)>>)
    ELSE Outcome("enumskip", p + 2, <<>>, <<>>, <<>>, [name |-> Text(p + 1), span |-> p])

\* ---- map literals
\* An open parse_map_literal call is a frame; the innermost call is the last
\* frame.  phase says where the call stands: "head" at the top of its loop,
\* "key" or "value" while the nested literal that is its key or value is parsed.
\* at is the position at which its current loop iteration began.

Frame(span) == [pairs |-> <<>>, span |-> span, phase |-> "head", key |-> NoExpr, at |-> span]

Top(fs) == fs[Len(fs)]
SetTop(fs, f) == [fs EXCEPT ![Len(fs)] = f]
Pop(fs) == SubSeq(fs, 1, Len(fs) - 1)

\* The innermost literal has a key and a value: push the pair, skip a comma,
\* and stand at the top of its loop again.
AfterValue(fs, key, value, p, head) ==
    Outcome("map", IF Kind(p) = "Comma" THEN p + 1 ELSE p, <<>>,
            SetTop(fs, [Top(fs) EXCEPT !.pairs = Append(@, <<key, value>>),
                                       !.phase = "head", !.key = NoExpr]),
            <<>>, head)

\* The innermost literal has its key and current_token is p: expect ':' and
\* parse the value with parse_simple_expression.
AfterKey(fs, key, p, head) ==
    IF Kind(p) # "Colon"
    THEN Failed(p, <<ParseError("Expected ':' in map literal", p)>>)
    ELSE IF IsTerminal(p + 1)
    THEN AfterValue(fs, key, TerminalExpr(p + 1), p + 2, head)
    ELSE IF Kind(p + 1) = "LBrace"
    THEN Outcome("map", p + 2, <<>>,
                 Append(SetTop(fs, [Top(fs) EXCEPT !.phase = "value", !.key = key]),
                        Frame(p + 1)),
                 <<>>, head)
    ELSE Failed(p + 1, <<ParseError("Unexpected token in expression", p + 1)>>)

\* A map literal was returned to its caller with current_token at p: the
\* let's statement (no frame left) or the enclosing literal.
Deliver(fs, lit, p, errs, head) ==
    IF fs = <<>>
    THEN Outcome("top", p, errs, <<>>, <<LetDefinition(head, lit)>>, NoPending)
    ELSE LET r == IF Top(fs).phase = "key" THEN AfterKey(fs, lit, p, head)
                  ELSE AfterValue(fs, Top(fs).key, lit, p, head)
         IN  [r EXCEPT !.errs = errs \o r.errs]

\* The loop of parse_map_literal runs while current is neither '}' nor Eof.
InMapLoop(p) == Kind(p) \notin {"RBrace", "Eof"}

\* parse_map_literal after its loop: consume '}' or report it missing.
MapLiteralEnd(fs, p, head) ==
    LET lit == MapLit(Top(fs).pairs, Top(fs).span)
    IN  IF Kind(p) = "RBrace"
        THEN Deliver(Pop(fs), lit, p + 1, <<>>, head)
        ELSE Deliver(Pop(fs), lit, p,
                     <<ParseError("Expected '}' to close map literal", p)>>, head)

\* One pass through the top of the loop of the innermost parse_map_literal.
MapLiteralIteration(fs, p, head) ==
    LET here == SetTop(fs, [Top(fs) EXCEPT !.at = p])
    IN  IF IsTerminal(p) THEN AfterKey(here, TerminalExpr(p), p + 1, head)
        ELSE IF Kind(p) = "LBrace"
        THEN Outcome("map", p + 1, <<>>,
                     Append(SetTop(here, [Top(here) EXCEPT !.phase = "key"]), Frame(p)),
                     <<>>, head)
        ELSE Failed(p, <<ParseError("Unexpected token in expression", p)>>)

\* ---- let's statements

\* parse_let_statement up to its value; current_token p is 'let's'.
\* Yields [ok, pos, errs, head].
LetHeader(p) ==
    LET p1 == p + 1
        \* an Identifier "s" after the keyword is consumed
        p2 == IF Kind(p1) = "Identifier" /\ Text(p1) = "s" THEN p1 + 1 ELSE p1
        is_tracked == Kind(p2) = "Track"
        p3 == IF is_tracked THEN p2 + 1 ELSE p2
    IN  IF Kind(p3) # "Identifier"
        THEN [ ok |-> FALSE, pos |-> p3, head |-> NoPending,
               errs |-> <<ParseError("Expected variable name", p3)>> ]
        ELSE LET p4 == p3 + 1
                 annotated == Kind(p4) = "Colon" /\ Kind(p4 + 1) = "Identifier"
                 p5 == IF Kind(p4) = "Colon"
                       THEN (IF annotated THEN p4 + 2 ELSE p4 + 1) ELSE p4
             IN  IF Kind(p5) # "Assign"
                 THEN [ ok |-> FALSE, pos |-> p5, head |-> NoPending,
                        errs |-> <<ParseError("Expected '=' in let statement", p5)>> ]
                 ELSE [ ok |-> TRUE, pos |-> p5 + 1, errs |-> <<>>,
                        head |-> [ name |-> Text(p3), is_tracked |-> is_tracked,
                                   type_annotation |->
                                       IF annotated THEN SomeAnnotation(Text(p4 + 1))
                                       ELSE NoAnnotation,
                                   span |-> p ] ]

\* parse_let_statement from its value on; h is what LetHeader yielded.
LetValue(h) ==
    IF ~h.ok THEN Failed(h.pos, h.errs)
    ELSE IF IsTerminal(h.pos)
    THEN Outcome("top", h.pos + 1, <<>>, <<>>,
                 <<LetDefinition(h.head, TerminalExpr(h.pos))>>, NoPending)
    ELSE IF Kind(h.pos) = "LBrace"
    THEN Outcome("map", h.pos + 1, <<>>, <<Frame(h.pos)>>, <<>>, h.head)
    ELSE Failed(h.pos, <<ParseError("Unexpected token in expression", h.pos)>>)

\* parse_definition's arm for a token that starts no definition: it skips the
\* token and returns None.
SkipUnknown(p) == Failed(p + 1, <<>>)

-----------------------------------------------------------------------------
\* Guardian (semantic analyzer).  Types and symbol kinds are records; a
\* HashMap is a function from its keys.

TNumber == [t |-> "Number"]
TString == [t |-> "String"]
TBoolean == [t |-> "Boolean"]
TNothing == [t |-> "Nothing"]
TError == [t |-> "Error"]
Custom(name) == [t |-> "Custom", name |-> name]
Generic(name) == [t |-> "Generic", name |-> name]
Concrete(name, args) == [t |-> "Concrete", name |-> name, args |-> args]
EnumType(name, variants) == [t |-> "Enum", name |-> name, variants |-> variants]

FunctionType(params, return_type) ==
    [t |-> "Function", params |-> params, return_type |-> return_type]

KindFunction(param_types, return_type) ==
    [k |-> "Function", param_types |-> param_types, return_type |-> return_type]
KindVariable(is_tracked) == [k |-> "Variable", is_tracked |-> is_tracked]
KindType == [k |-> "Type"]
KindEnum(variants) == [k |-> "Enum", variants |-> variants]
KindContract(fields) == [k |-> "Contract", fields |-> fields]
KindGenericContract(params, fields) ==
    [k |-> "GenericContract", params |-> params, fields |-> fields]

SemanticError(error_type, name, span) ==
    [error_type |-> error_type, name |-> name, span |-> span]

\* HashMap::insert
Insert(map, key, value) ==
    [k \in DOMAIN map \cup {key} |-> IF k = key THEN value ELSE map[k]]

EmptyMap == [k \in {} |-> k]

IsBuiltinTypeName(s) == s \in {"number", "string", "boolean", "nothing"}

BuiltinType(s) ==
    CASE s = "number" -> TNumber
      [] s = "string" -> TString
      [] s = "boolean" -> TBoolean
      [] OTHER -> TNothing

resolve_type_from_string(table, type_str) ==
    IF IsBuiltinTypeName(type_str) THEN BuiltinType(type_str)
    ELSE IF resolve(table, type_str) # NoSymbol THEN resolve(table, type_str).ty
    ELSE Custom(type_str)

types_are_compatible(expected, actual) ==
    expected = TError \/ actual = TError \/ expected = actual

RECURSIVE resolve_type_identifier(_, _)
resolve_type_identifier(type_ann, scope) ==
    IF type_ann.ti = "Simple"
    THEN IF IsBuiltinTypeName(type_ann.name) THEN BuiltinType(type_ann.name)
         ELSE IF resolve(scope, type_ann.name) # NoSymbol
              THEN resolve(scope, type_ann.name).ty
              ELSE TError
    ELSE LET symbol == resolve(scope, type_ann.name)
         IN  IF symbol # NoSymbol /\ symbol.kind.k = "GenericContract"
             THEN IF Len(symbol.kind.params) # Len(type_ann.args) THEN TError
                  ELSE Concrete(type_ann.name,
                           [i \in 1..Len(type_ann.args) |->
                               resolve_type_identifier(type_ann.args[i], scope)])
             ELSE TError

\* Expressions the Guardian types beyond those the Architect builds.
BooleanLit(v) == [e |-> "Boolean", v |-> v]
NothingLit == [e |-> "Nothing"]
MemberAccess(object, property) ==
    [e |-> "MemberAccess", object |-> object, property |-> property]
Call(function, arguments) == [e |-> "Call", function |-> function, arguments |-> arguments]
Infix(operator, left, right) ==
    [e |-> "Infix", operator |-> operator, left |-> left, right |-> right]

\* The symbol an enum-variant expression EnumName.property refers to: the
\* object is an identifier that resolves to a symbol of an Enum type.
EnumSymbol(table, member_access) ==
    IF member_access.object.e = "Identifier"
    THEN LET symbol == resolve(table, member_access.object.name)
         IN  IF symbol # NoSymbol /\ symbol.ty.t = "Enum" THEN symbol ELSE NoSymbol
    ELSE NoSymbol

\* The argument checks of the Call arm without the comparison of lengths:
\* the arguments are zipped with the expected types.
VariantCallTypeZipped(ty, expected_types, argument_types) ==
    IF \E i \in 1..Len(argument_types) :
           i <= Len(expected_types) /\ argument_types[i] # expected_types[i]
    THEN TError
    ELSE ty

\* The argument checks of the Call arm for a variant that exists: the number
\* of arguments, then each argument's type against the expected type.
VariantCallType(ty, expected_types, argument_types) ==
    IF Len(argument_types) # Len(expected_types) THEN TError
    ELSE IF \E i \in 1..Len(argument_types) : argument_types[i] # expected_types[i]
    THEN TError
    ELSE ty

\* A when-expression, its cases and their patterns.
When(value, cases) == [e |-> "When", value |-> value, cases |-> cases]
WhenCase(pattern, body) == [pattern |-> pattern, body |-> body]
LiteralPattern(literal) == [p |-> "Literal", literal |-> literal]
EnumVariantPattern(enum_name, variant_name) ==
    [p |-> "EnumVariant", enum_name |-> enum_name, variant_name |-> variant_name]
IdentifierPattern(name) == [p |-> "Identifier", name |-> name]
ElsePattern == [p |-> "Else"]

\* The When arm returns Error at a case whose pattern is an EnumVariant when
\* the subject is not of that enum, or the enum's symbol lacks the variant.
\* A Literal pattern of another type than the subject's is passed over.
WhenCaseRejected(table, subject_type, pattern) ==
    /\ pattern.p = "EnumVariant"
    /\ \/ subject_type.t # "Enum"
       \/ subject_type.name # pattern.enum_name
       \/ /\ resolve(table, pattern.enum_name) # NoSymbol
          /\ resolve(table, pattern.enum_name).kind.k = "Enum"
          /\ pattern.variant_name \notin resolve(table, pattern.enum_name).kind.variants

\* The result compared over the first and last case only.
WhenResultFirstLast(case_types) ==
    IF case_types = <<>> THEN TNothing
    ELSE IF case_types[1] = case_types[Len(case_types)] THEN case_types[1]
    ELSE TError

\* case_types.windows(2).all(|w| w[0] == w[1]), then first() or Nothing.
WhenResult(case_types) ==
    IF \A i \in 1..(Len(case_types) - 1) : case_types[i] = case_types[i + 1]
    THEN IF case_types = <<>> THEN TNothing ELSE case_types[1]
    ELSE TError

\* infer_expression_type.  It pushes no diagnostic.  List and Map literals
\* and every other expression reach the final arm.
RECURSIVE infer_expression_type(_, _)
infer_expression_type(table, expr) ==
    CASE expr.e = "Number" -> TNumber
      [] expr.e = "String" -> TString
      [] expr.e = "Boolean" -> TBoolean
      [] expr.e = "Nothing" -> TNothing
      [] expr.e = "Identifier" ->
            IF resolve(table, expr.name) # NoSymbol THEN resolve(table, expr.name).ty
            ELSE TError
      [] expr.e = "Call" ->
            IF expr.function.e = "MemberAccess"
               /\ EnumSymbol(table, expr.function) # NoSymbol
               /\ expr.function.property
                      \in DOMAIN EnumSymbol(table, expr.function).ty.variants
            THEN LET ty == EnumSymbol(table, expr.function).ty
                 IN  VariantCallType(ty, ty.variants[expr.function.property],
                         [i \in 1..Len(expr.arguments) |->
                             infer_expression_type(table, expr.arguments[i])])
            ELSE TError
      [] expr.e = "MemberAccess" ->
            IF EnumSymbol(table, expr) # NoSymbol
            THEN LET ty == EnumSymbol(table, expr).ty
                 IN  IF expr.property \in DOMAIN ty.variants
                        /\ ty.variants[expr.property] = <<>>
                     THEN ty
                     ELSE TError
            ELSE TError
      [] expr.e = "When" ->
            IF \E i \in 1..Len(expr.cases) :
                   WhenCaseRejected(table, infer_expression_type(table, expr.value),
                                    expr.cases[i].pattern)
            THEN TError
            ELSE WhenResult([i \in 1..Len(expr.cases) |->
                                infer_expression_type(table, expr.cases[i].body)])
      [] expr.e = "Infix" ->
            IF infer_expression_type(table, expr.left) = TNumber
               /\ infer_expression_type(table, expr.right) = TNumber
            THEN TNumber
            ELSE TError
      [] OTHER -> TError

\* No earlier analysis run; no check_contract_initializer call.
NoRun == [done |-> FALSE]
NoCall == [made |-> FALSE]

\* A Guardian is [errors, symbol_table].
GuardianNew == [errors |-> <<>>, symbol_table |-> SymbolTableDefault]

\* self.symbol_table.define(...), pushing the given error when it returns false.
DefineOrReport(g, name, ty, kind, error) ==
    LET r == define(g.symbol_table, name, ty, kind)
    IN  [ errors |-> IF r.ok THEN g.errors ELSE Append(g.errors, error),
          symbol_table |-> r.table ]

\* A contract scope in which no generic parameter is registered.
SkipGenericParams(scope, params, i) == scope

\* Defines each generic parameter in the contract scope.
RECURSIVE DefineGenericParams(_, _, _)
DefineGenericParams(scope, params, i) ==
    IF i > Len(params) THEN scope
    ELSE DefineGenericParams(
             define(scope, params[i], Generic(params[i]), KindType).table, params, i + 1)

\* Resolves the fields of a contract into a HashMap, in order.
RECURSIVE ResolveFields(_, _, _, _)
ResolveFields(fields, scope, i, resolved) ==
    IF i > Len(fields) THEN resolved
    ELSE ResolveFields(fields, scope, i + 1,
             Insert(resolved, fields[i].name,
                    resolve_type_identifier(fields[i].type_ann, scope)))

check_contract_definition(g, contract_def) ==
    LET contract_scope ==
            DefineGenericParams(new_enclosed(g.symbol_table), contract_def.generic_params, 1)
        resolved_fields == ResolveFields(contract_def.fields, contract_scope, 1, EmptyMap)
        contract_kind ==
            IF contract_def.generic_params = <<>> THEN KindContract(resolved_fields)
            ELSE KindGenericContract(contract_def.generic_params, resolved_fields)
    IN  DefineOrReport(g, contract_def.name, Custom(contract_def.name), contract_kind,
            SemanticError("DuplicateDeclaration", contract_def.name, contract_def.span))

\* The variants of an enum definition as a HashMap from name to Custom types.
RECURSIVE ResolveVariants(_, _, _)
ResolveVariants(variants, i, resolved) ==
    IF i > Len(variants) THEN resolved
    ELSE ResolveVariants(variants, i + 1,
             Insert(resolved, variants[i].name,
                    [j \in 1..Len(variants[i].types) |-> Custom(variants[i].types[j])]))

\* check_enum_definition registering the enum under an opaque Custom type.
check_enum_definition_custom(g, enum_def) ==
    [ errors |-> g.errors,
      symbol_table |->
          define(g.symbol_table, enum_def.name, Custom(enum_def.name),
                 KindEnum({ enum_def.variants[i].name : i \in 1..Len(enum_def.variants) })).table ]

\* check_enum_definition ignores the result of define.  The kind lists the
\* variant names in the HashMap's key order; they are kept as a set.
check_enum_definition(g, enum_def) ==
    LET resolved_variants == ResolveVariants(enum_def.variants, 1, EmptyMap)
    IN  [ errors |-> g.errors,
          symbol_table |->
              define(g.symbol_table, enum_def.name,
                     EnumType(enum_def.name, resolved_variants),
                     KindEnum(DOMAIN resolved_variants)).table ]

check_app_definition(g, app) ==
    DefineOrReport(g, app.name, Custom("App<" \o app.name \o ">"), KindType,
        SemanticError("DuplicateDeclaration", app.name, app.span))

\* A function definition: parameters are [name, type_annotation], return_type
\* is an optional type name, body a sequence of statements.
FunctionDefinition(name, parameters, return_type, body, span) ==
    [ def |-> "Function", name |-> name, parameters |-> parameters,
      return_type |-> return_type, body |-> body, span |-> span ]

\* check_function_definition registers the function; its body is not checked.
check_function_definition(g, func) ==
    LET param_types ==
            [i \in 1..Len(func.parameters) |->
                resolve_type_from_string(g.symbol_table, func.parameters[i].type_annotation)]
        return_type ==
            IF func.return_type.some
            THEN resolve_type_from_string(g.symbol_table, func.return_type.name)
            ELSE TNothing
    IN  DefineOrReport(g, func.name, FunctionType(param_types, return_type),
            KindFunction(param_types, return_type),
            SemanticError("DuplicateDeclaration", func.name, func.span))

\* The pair loop of check_contract_initialization; acc is [errors, found].
RECURSIVE CheckPairs(_, _, _, _, _, _)
CheckPairs(table, fields, pairs, span, i, acc) ==
    IF i > Len(pairs) THEN acc
    ELSE LET key_expr == pairs[i][1]
             value_expr == pairs[i][2]
             \* a String key is trimmed of '"', of which a literal's text holds none
             field_name == IF key_expr.e = "String" THEN key_expr.v ELSE key_expr.name
         IN  IF key_expr.e \notin {"String", "Identifier"}
             THEN CheckPairs(table, fields, pairs, span, i + 1,
                      [acc EXCEPT !.errors =
                          Append(@, SemanticError("InvalidFieldKey", "", span))])
             ELSE IF field_name \in DOMAIN fields
             THEN LET actual_type == infer_expression_type(table, value_expr)
                  IN  CheckPairs(table, fields, pairs, span, i + 1,
                          [ errors |->
                                IF types_are_compatible(fields[field_name], actual_type)
                                THEN acc.errors
                                ELSE Append(acc.errors,
                                         SemanticError("TypeMismatch", field_name, span)),
                            found |-> acc.found \cup {field_name} ])
             ELSE CheckPairs(table, fields, pairs, span, i + 1,
                      [acc EXCEPT !.errors =
                          Append(@, SemanticError("UnknownField", field_name, span))])

\* The missing-field loop without its contains_key test: every field is reported.
RECURSIVE MissingFieldsAll(_, _, _, _)
MissingFieldsAll(order, found, span, i) ==
    IF i > Len(order) THEN <<>>
    ELSE <<SemanticError("MissingField", order[i], span)>>
         \o MissingFieldsAll(order, found, span, i + 1)

\* The missing-field loop: it walks the fields HashMap in its iteration order.
RECURSIVE MissingFields(_, _, _, _)
MissingFields(order, found, span, i) ==
    IF i > Len(order) THEN <<>>
    ELSE (IF order[i] \in found THEN <<>>
          ELSE <<SemanticError("MissingField", order[i], span)>>)
         \o MissingFields(order, found, span, i + 1)

\* The orders in which a HashMap with these keys may be iterated.
IterationOrders(keys) ==
    { order \in [1..Cardinality(keys) -> keys] :
        \A i, j \in 1..Cardinality(keys) : i # j => order[i] # order[j] }

\* The contract whose fields HashMap check_let_statement would iterate for
\* this let's statement, or NoSymbol.
InitializedContract(table, let_stmt) ==
    IF let_stmt.type_annotation.some /\ let_stmt.value.e = "Map"
    THEN LET expected_type == resolve_type_from_string(table, let_stmt.type_annotation.name)
         IN  IF expected_type.t = "Custom"
                 /\ resolve(table, expected_type.name) # NoSymbol
                 /\ resolve(table, expected_type.name).kind.k = "Contract"
             THEN resolve(table, expected_type.name)
             ELSE NoSymbol
    ELSE NoSymbol

\* check_contract_initialization; order is the iteration order of the
\* contract's fields HashMap.
check_contract_initialization(g, contract_name, map_literal, span, order) ==
    LET contract_symbol == resolve(g.symbol_table, contract_name)
    IN  IF contract_symbol = NoSymbol
        THEN [g EXCEPT !.errors =
                 Append(@, SemanticError("UndefinedType", contract_name, span))]
        ELSE IF contract_symbol.kind.k # "Contract" THEN g
        ELSE LET fields == contract_symbol.kind.fields
                 acc == CheckPairs(g.symbol_table, fields, map_literal.pairs, span, 1,
                                   [errors |-> g.errors, found |-> {}])
             IN  [g EXCEPT !.errors = acc.errors \o MissingFields(order, acc.found, span, 1)]

\* check_let_statement registering every variable with the Error type.
check_let_statement_untyped(g, let_stmt, order) ==
    DefineOrReport(g, let_stmt.name, TError, KindVariable(let_stmt.is_tracked),
        SemanticError("DuplicateDeclaration", let_stmt.name, let_stmt.span))

check_let_statement(g, let_stmt, order) ==
    LET value_type == infer_expression_type(g.symbol_table, let_stmt.value)
        annotated == let_stmt.type_annotation.some
        expected_type == resolve_type_from_string(g.symbol_table, let_stmt.type_annotation.name)
        g1 == IF ~annotated THEN g
              ELSE IF let_stmt.value.e = "Map"
              THEN IF expected_type.t = "Custom"
                   THEN check_contract_initialization(g, expected_type.name, let_stmt.value,
                                                      let_stmt.span, order)
                   ELSE g
              ELSE IF types_are_compatible(expected_type, value_type) THEN g
              ELSE [g EXCEPT !.errors =
                       Append(@, SemanticError("TypeMismatch", let_stmt.name, let_stmt.span))]
        var_type == IF annotated
                    THEN resolve_type_from_string(g1.symbol_table, let_stmt.type_annotation.name)
                    ELSE value_type
    IN  DefineOrReport(g1, let_stmt.name, var_type, KindVariable(let_stmt.is_tracked),
            SemanticError("DuplicateDeclaration", let_stmt.name, let_stmt.span))

\* The type a field of a generic contract has in the instantiation with the
\* given arguments: a Generic(param) field is replaced by the argument of the
\* parameter (Error if there is none), any other field type is kept.
ConcreteFieldType(kind, args, field_name) ==
    LET generic_field_type == kind.fields[field_name]
    IN  IF generic_field_type.t = "Generic"
        THEN IF \E i \in 1..Len(kind.params) :
                    i <= Len(args) /\ kind.params[i] = generic_field_type.name
             THEN LET i == CHOOSE j \in 1..Len(kind.params) :
                               /\ j <= Len(args) /\ kind.params[j] = generic_field_type.name
                               /\ \A k \in (j + 1)..Len(kind.params) :
                                     k <= Len(args) => kind.params[k] # generic_field_type.name
                  IN  args[i]
             ELSE TError
        ELSE generic_field_type

\* check_contract_initializer yields [ty, g].  Its loop infers the type of
\* each initializer field's value and compares it with ConcreteFieldType;
\* the branch taken on a mismatch is empty, and infer_expression_type pushes
\* nothing, so the Guardian is left as it was.
check_contract_initializer(g, expected_type, initializer_fields) ==
    IF expected_type.t = "Concrete"
       /\ resolve(g.symbol_table, expected_type.name) # NoSymbol
       /\ resolve(g.symbol_table, expected_type.name).kind.k = "GenericContract"
    THEN [ty |-> expected_type, g |-> g]
    ELSE [ty |-> TError, g |-> g]

\* check_definition; a Statement is a let's statement (check_statement does
\* nothing for the other statements).
check_definition(g, def, order) ==
    CASE def.def = "Enum" -> check_enum_definition(g, def)
      [] def.def = "Contract" -> check_contract_definition(g, def)
      [] def.def = "Function" -> check_function_definition(g, def)
      [] def.def = "App" -> check_app_definition(g, def)
      [] OTHER -> check_let_statement(g, def, order)

\* The HashMap iteration orders check_definition may meet on this definition.
DefinitionOrders(table, def) ==
    IF def.def = "Let" /\ InitializedContract(table, def) # NoSymbol
    THEN IterationOrders(DOMAIN InitializedContract(table, def).kind.fields)
    ELSE {<<>>}

-----------------------------------------------------------------------------
\* The analyzer variables of a run that does not use the analyzer.
GuardIdle ==
    /\ g_errors = <<>>
    /\ g_next = 1
    /\ g_first = NoRun
    /\ g_call = NoCall

\* No InstructionSequence yet.
NoSequence == [none |-> TRUE]

\* The Lowerer variables of a run that does not use the Lowerer.
LowerIdle ==
    /\ label_counter = 0
    /\ sequences = <<>>
    /\ main_seq = NoSequence
    /\ l_next = 1
    /\ l_pc = "new"

\* The parser variables of a run that does not use the parser.
ParseIdle ==
    /\ toks = <<>>
    /\ pos = 1
    /\ errors = <<>>
    /\ definitions = <<>>
    /\ pc = "idle"
    /\ pending = NoPending
    /\ frames = <<>>

\* The symbol-table variables of a run that does not use them directly.
SymIdle ==
    /\ symbol_table = SymbolTableDefault
    /\ define_log = <<>>

-----------------------------------------------------------------------------
\* The lexer as a state machine: a Scribe is built over one input and
\* next_token is called repeatedly.

\* The lexer variables of a run that does not use the lexer.
LexIdle ==
    /\ input = <<>>
    /\ position = 0
    /\ read_position = 0
    /\ ch = 0
    /\ tokens = <<>>

LexInit ==
    /\ SymIdle
    /\ ParseIdle
    /\ GuardIdle
    /\ LowerIdle
    /\ input \in BoundedInputs \cup SampleInputs
    /\ position = ScribeNew.position
    /\ read_position = ScribeNew.read_position
    /\ ch = ScribeNew.ch
    /\ tokens = <<>>

\* One call of Scribe::next_token.
NextToken ==
    /\ Len(tokens) < Len(input) + MaxExtraCalls
    /\ LET r == next_token(ScribeState(position, read_position, ch))
       IN  /\ position' = r.s.position
           /\ read_position' = r.s.read_position
           /\ ch' = r.s.ch
           /\ tokens' = Append(tokens, r.tok)
    /\ UNCHANGED <<input, symVars, parseVars, guardVars, lowerVars>>

LexNext == NextToken

LexSpec == LexInit /\ [][LexNext]_vars

-----------------------------------------------------------------------------
\* Properties of the lexer.

Bytes(seq) == { seq[i] : i \in 1..Len(seq) }
TokenIndices == 1..Len(tokens)
IsWhitespace(c) == c \in {32, 9, 10, 13}

\* C2: every call returns one token, and once a call has returned an
\* end-of-file token every later call returns an end-of-file token too.
C2_EofIsSticky ==
    \A i \in TokenIndices : \A j \in TokenIndices :
        (i < j /\ tokens[i].kind = "Eof") => tokens[j].kind = "Eof"

\* The input has been tokenized up to and including its first end-of-file token.
TokenizedToEof ==
    /\ tokens # <<>>
    /\ tokens[Len(tokens)].kind = "Eof"
    /\ \A i \in 1..(Len(tokens) - 1) : tokens[i].kind # "Eof"

\* An input without illegal characters: no NUL byte, and no token is Illegal.
NoIllegalCharacters ==
    /\ 0 \notin Bytes(input)
    /\ \A i \in TokenIndices : tokens[i].kind # "Illegal"

\* The source text covered by the spans of tokens i.., concatenated in order.
RECURSIVE SpanText(_)
SpanText(i) ==
    IF i > Len(tokens) THEN <<>>
    ELSE Slice(tokens[i].start, tokens[i].end) \o SpanText(i + 1)

\* The input from byte i on with whitespace and #-comments removed, read
\* independently of the Scribe; mode is "code", "string" or "comment".
RECURSIVE Significant(_, _)
Significant(i, mode) ==
    IF i > Len(input) THEN <<>>
    ELSE LET c == input[i]
         IN  CASE mode = "comment" ->
                    IF c = 10 THEN Significant(i + 1, "code")
                    ELSE Significant(i + 1, "comment")
               [] mode = "string" ->
                    <<c>> \o Significant(i + 1, IF c = 34 THEN "code" ELSE "string")
               [] OTHER ->
                    IF IsWhitespace(c) THEN Significant(i + 1, "code")
                    ELSE IF c = 35 THEN Significant(i + 1, "comment")
                    ELSE <<c>> \o Significant(i + 1, IF c = 34 THEN "string" ELSE "code")

C7_UnterminatedStringSpan ==
    \A i \in TokenIndices :
        (tokens[i].kind = "Illegal" /\ tokens[i].text = <<34>> /\ 0 \notin Bytes(input))
            => /\ input[tokens[i].start + 1] = 34
               /\ tokens[i].end = Len(input)

\* C8: every returned token's span is a byte range into the buffer,
\* start <= end <= length, and no token starts before the previous token's end.
C8_SpansInBuffer ==
    \A i \in TokenIndices :
        /\ tokens[i].start <= tokens[i].end
        /\ tokens[i].end <= Len(input)
        /\ i > 1 => tokens[i].start >= tokens[i - 1].end

\* C9: an Identifier token covers a maximal run of letters, digits, underscores
\* and apostrophes: the byte after its span, if any, does not continue the run.
C9_IdentifierTakesDigits ==
    \A i \in TokenIndices :
        tokens[i].kind = "Identifier" =>
            /\ tokens[i].text = Slice(tokens[i].start, tokens[i].end)
            /\ tokens[i].end < Len(input) =>
                  LET c == input[tokens[i].end + 1]
                  IN  ~(is_ascii_alphabetic(c) \/ is_ascii_digit(c) \/ c = 95 \/ c = 39)

-----------------------------------------------------------------------------
\* The symbol table as a state machine: a caller defines symbols in the
\* current scope and opens enclosed scopes.

SymInit ==
    /\ LexIdle
    /\ ParseIdle
    /\ GuardIdle
    /\ LowerIdle
    /\ symbol_table = SymbolTableDefault
    /\ define_log = <<>>

\* One call of SymbolTable::define on the current scope.
Define(name, ty, kind) ==
    /\ Len(define_log) < MaxDefines
    /\ LET r == define(symbol_table, name, ty, kind)
       IN  /\ symbol_table' = r.table
           /\ define_log' = Append(define_log,
                  [depth |-> Len(symbol_table), name |-> name, ty |-> ty,
                   kind |-> kind, ok |-> r.ok])
    /\ UNCHANGED <<lexVars, parseVars, guardVars, lowerVars>>

\* The caller replaces its table by SymbolTable::new_enclosed(table).
NewEnclosed ==
    /\ Len(symbol_table) < MaxDepth
    /\ symbol_table' = new_enclosed(symbol_table)
    /\ UNCHANGED <<define_log, lexVars, parseVars, guardVars, lowerVars>>

SymNext ==
    \/ \E name \in SymNames, ty \in SymTypes, kind \in SymKinds : Define(name, ty, kind)
    \/ NewEnclosed

SymSpec == SymInit /\ [][SymNext]_vars

\* The store of the scope at the given depth (1 is the outermost scope).
StoreAtDepth(d) == symbol_table[Len(symbol_table) - d + 1]

\* The first define call of this name made at this depth.
FirstDefine(d, name) ==
    CHOOSE i \in 1..Len(define_log) :
        /\ define_log[i].depth = d /\ define_log[i].name = name
        /\ \A j \in 1..(i - 1) : ~(define_log[j].depth = d /\ define_log[j].name = name)

\* C10: in every scope each name is bound to the symbol of the first define of
\* that name in that scope; that define returned true (also when the name is
\* present in an enclosing scope), every later define of the name in the scope
\* returned false and changed nothing, and resolve finds the current scope's
\* binding first.
C10_FirstDefineWins ==
    /\ \A d \in 1..Len(symbol_table) :
          DOMAIN StoreAtDepth(d) =
              { define_log[i].name : i \in { k \in 1..Len(define_log) : define_log[k].depth = d } }
    /\ \A i \in 1..Len(define_log) :
          LET e == define_log[i]
              f == define_log[FirstDefine(e.depth, e.name)]
          IN  /\ e.ok <=> (i = FirstDefine(e.depth, e.name))
              /\ StoreAtDepth(e.depth)[e.name] = Symbol(e.name, f.kind, f.ty)
    /\ \A n \in DOMAIN symbol_table[1] : resolve(symbol_table, n) = symbol_table[1][n]

\* C10 witness: a redefinition with another type was rejected in the outer
\* scope, and the same name was then defined in an enclosed scope.
C10_Witness ==
    \E i, j, k \in 1..Len(define_log) :
        /\ i < j /\ j < k
        /\ define_log[i].name = define_log[j].name /\ define_log[j].name = define_log[k].name
        /\ define_log[i].depth = 1 /\ define_log[j].depth = 1 /\ define_log[k].depth = 2
        /\ define_log[i].ty # define_log[j].ty
        /\ define_log[i].ok /\ ~define_log[j].ok /\ define_log[k].ok
        /\ resolve(symbol_table, define_log[k].name).ty = define_log[k].ty

-----------------------------------------------------------------------------
\* Bounds and inputs of the parser model.

\* Longest token stream that is enumerated token by token.
MaxToks == 3
\* Most fragments concatenated into one longer token stream.
MaxFrags == 2

\* The tokens the enumerated streams are built from.
StreamTokens ==
    { PTok("Let", ""), PTok("Contract", ""), PTok("Identifier", "x"),
      PTok("Identifier", "s"), PTok("Number", "42"), PTok("Assign", ""),
      PTok("Colon", ""), PTok("LBrace", ""), PTok("RBrace", ""), PTok("Illegal", "@") }

Id(name) == PTok("Identifier", name)
Num(v) == PTok("Number", v)
K(kind) == PTok(kind, "")

\* The binary operator tokens of the language.
InfixTokenKinds ==
    {"Plus", "Minus", "Asterisk", "Slash", "Equals", "NotEquals", "LessThan", "GreaterThan"}

\* let's r = a op b
InfixLet(op) == <<K("Let"), Id("r"), K("Assign"), Id("a"), K(op), Id("b")>>

\* let's n = v
SimpleLet(n, v) == <<K("Let"), Id(n), K("Assign"), Num(v)>>

\* Pieces of source, as the Scribe tokenizes them, that longer streams are made of.
Fragments ==
    { SimpleLet("y", "42"),
      SimpleLet("s", "7"),
      <<PTok("Illegal", "@")>>,
      <<K("Let"), Id("x"), K("Assign"), PTok("Illegal", "@")>>,
      <<K("Let"), Id("x")>>,
      <<K("Let"), K("Track"), Id("c"), K("Assign"), PTok("String", "hi")>>,
      <<K("Contract"), Id("User"), K("Colon"), Id("id"), K("Colon"), Id("number"),
        Id("name"), K("Colon"), Id("string")>>,
      <<K("Contract"), Id("Box"), K("LessThan"), Id("T"), K("Comma"), Id("U"),
        K("GreaterThan"), K("Colon"), Id("value"), K("Colon"), Id("T"), K("Comma")>>,
      <<K("Let"), Id("u"), K("Colon"), Id("User"), K("Assign"),
        K("LBrace"), Id("id"), K("Colon"), Num("42"), K("RBrace")>>,
      <<K("Let"), Id("m"), K("Assign"), K("LBrace"), Id("a"), K("Colon"),
        K("LBrace"), Id("b"), K("Colon"), Num("1"), K("RBrace"), K("Comma"),
        K("LBrace"), K("RBrace"), K("Colon"), Id("x")>>,
      <<K("App"), Id("My"), K("Colon"), K("Show"), K("Colon")>>,
      <<K("Enum"), Id("Color"), K("Colon"), Id("Red")>> }
    \cup { InfixLet(op) : op \in InfixTokenKinds }

RECURSIVE FragmentStreams(_)
FragmentStreams(n) ==
    IF n = 0 THEN {<<>>}
    ELSE LET shorter == FragmentStreams(n - 1)
         IN  shorter \cup { s \o f : s \in shorter, f \in Fragments }

EnumeratedStreams == UNION { [1..n -> StreamTokens] : n \in 0..MaxToks }

TokenStreams == EnumeratedStreams \cup FragmentStreams(MaxFrags)

-----------------------------------------------------------------------------
\* The pipeline as a state machine: Architect::new over the token stream of
\* a source, then parse_program, one step per pass through the top of one of
\* its loops, then Guardian::new and check_program over the returned Program,
\* one step per definition.

\* No source has been handed to the pipeline yet.
ParseInit ==
    /\ LexIdle
    /\ SymIdle
    /\ GuardIdle
    /\ LowerIdle
    /\ toks = <<>>
    /\ pos = 1
    /\ errors = <<>>
    /\ definitions = <<>>
    /\ pc = "new"
    /\ pending = NoPending
    /\ frames = <<>>

\* Architect::new over the Scribe of a source: the first two tokens are
\* loaded and errors is empty.
ArchitectNew ==
    /\ pc = "new"
    /\ toks' \in TokenStreams
    /\ pos' = 1
    /\ errors' = <<>>
    /\ pc' = "top"
    /\ UNCHANGED <<definitions, pending, frames, lexVars, symVars, guardVars, lowerVars>>

\* The parser moves to the given outcome.
Apply(outcome) ==
    \E r \in {outcome} :
        /\ pc' = r.pc
        /\ pos' = r.pos
        /\ errors' = errors \o r.errs
        /\ frames' = r.frames
        /\ definitions' = definitions \o r.defs
        /\ pending' = r.head
        /\ UNCHANGED <<toks, lexVars, symVars, guardVars, lowerVars>>

\* parse_program: the loop ends at end-of-file and the Program is returned.
ProgramEnd ==
    /\ pc = "top" /\ Kind(pos) = "Eof"
    /\ pc' = "done"
    /\ UNCHANGED <<toks, pos, errors, definitions, pending, frames, lexVars, symVars,
                   guardVars, lowerVars>>

\* parse_program, parse_definition: the Contract arm.
DefinitionContract ==
    /\ pc = "top" /\ Kind(pos) = "Contract"
    /\ Apply(ContractHeader(pos))

\* parse_program, parse_definition: the Let arm.
DefinitionLet ==
    /\ pc = "top" /\ Kind(pos) = "Let"
    /\ \E h \in {LetHeader(pos)} : Apply(LetValue(h))

\* parse_program, parse_definition: the App arm.
DefinitionApp ==
    /\ pc = "top" /\ Kind(pos) = "App"
    /\ Apply(AppHeader(pos))

\* parse_program, parse_definition: the Enum arm.
DefinitionEnum ==
    /\ pc = "top" /\ Kind(pos) = "Enum"
    /\ Apply(EnumHeader(pos))

\* parse_program, parse_definition: the arm for every other token.
DefinitionOther ==
    /\ pc = "top" /\ Kind(pos) \notin {"Eof", "Contract", "Let", "App", "Enum"}
    /\ Apply(SkipUnknown(pos))

\* parse_contract_definition: one pass through the top of the field loop.
ContractFieldLoop ==
    /\ pc = "fields"
    /\ IF InFieldLoop(pos)
       THEN Apply(ContractFieldIteration(pos, pending))
       ELSE Apply(Outcome("top", pos, <<>>, <<>>,
                          <<ContractDefinition(pending, pending.fields)>>, NoPending))

\* parse_app_definition: one pass through the top of the skipping loop.
AppBodyLoop ==
    /\ pc = "appskip"
    /\ IF InAppLoop(pos)
       THEN Apply(Outcome("appskip", pos + 1, <<>>, <<>>, <<>>, pending))
       ELSE Apply(Outcome("top", pos, <<>>, <<>>, <<AppDefinition(pending)>>, NoPending))

\* parse_enum_definition: one pass through the top of the skipping loop.
EnumBodyLoop ==
    /\ pc = "enumskip"
    /\ IF InEnumLoop(pos)
       THEN Apply(Outcome("enumskip", pos + 1, <<>>, <<>>, <<>>, pending))
       ELSE Apply(Outcome("top", pos, <<>>, <<>>, <<EnumDefinition(pending)>>, NoPending))

\* parse_map_literal: one pass through the top of the loop of the innermost literal.
MapLiteralLoop ==
    /\ pc = "map"
    /\ IF InMapLoop(pos)
       THEN Apply(MapLiteralIteration(frames, pos, pending))
       ELSE Apply(MapLiteralEnd(frames, pos, pending))

\* check_program: one iteration of its loop over program.definitions.
CheckDefinition ==
    /\ pc = "done" /\ g_next <= Len(definitions)
    /\ \E order \in DefinitionOrders(symbol_table, definitions[g_next]) :
          LET g == check_definition([errors |-> g_errors, symbol_table |-> symbol_table],
                                    definitions[g_next], order)
          IN  /\ g_errors' = g.errors
              /\ symbol_table' = g.symbol_table
    /\ g_next' = g_next + 1
    /\ UNCHANGED <<define_log, lexVars, parseVars, g_first, g_call, lowerVars>>

\* check_program has returned.
Analysed == pc = "done" /\ g_next > Len(definitions)

ParseNext ==
    \/ ArchitectNew
    \/ ProgramEnd
    \/ DefinitionContract
    \/ DefinitionLet
    \/ DefinitionApp
    \/ DefinitionEnum
    \/ DefinitionOther
    \/ ContractFieldLoop
    \/ AppBodyLoop
    \/ EnumBodyLoop
    \/ MapLiteralLoop
    \/ CheckDefinition

ParseSpec == ParseInit /\ [][ParseNext]_vars

\* The parser runs to completion: it is one sequential call.
ParseFairSpec == ParseSpec /\ WF_vars(ParseNext)

-----------------------------------------------------------------------------
\* Properties of the parser.

\* A well-formed definition starts at token i: let's n = literal-or-name,
\* contract N :, app N or enum N.
StartsDefinition(i) ==
    \/ /\ Kind(i) = "Let"
       /\ Kind(i + 1) = "Identifier" /\ Text(i + 1) # "s"
       /\ Kind(i + 2) = "Assign"
       /\ IsTerminal(i + 3)
    \/ Kind(i) = "Contract" /\ Kind(i + 1) = "Identifier" /\ Kind(i + 2) = "Colon"
    \/ Kind(i) \in {"App", "Enum"} /\ Kind(i + 1) = "Identifier"

\* This step is a definition attempt that failed or a stray token that was
\* met: the parser is back at the top of parse_program with no definition added.
RecoveryStep == pc \in {"top", "map"} /\ pc' = "top" /\ definitions' = definitions

\* The tokens a recovery step moves past, other than the token the attempt began with.
GivenUp == IF pc = "top" THEN (pos + 1)..(pos' - 1) ELSE pos..(pos' - 1)

\* C1: top-level error recovery never swallows a following definition: no
\* token that begins a well-formed definition is among the tokens a failed
\* definition attempt or a stray token makes the parser move past.
C1_RecoveryKeepsNextDefinition ==
    [][RecoveryStep => \A i \in GivenUp : ~StartsDefinition(i)]_vars

\* The loops of parse_program and of the functions it calls.
InnerLoops == {"fields", "appskip", "enumskip"}

\* C3: parse_program terminates.  No step moves backwards; a definition
\* attempt consumes a token at once; each iteration of the field loop and of
\* the app and enum skipping loops consumes a token; the parser stands beyond
\* the token at which the current iteration of every open map-literal loop
\* began; on exit the current token is end-of-file; and the exit is reached.
C3_ParseProgramTerminates ==
    /\ [][pos' >= pos]_vars
    /\ [][(pc = "top" /\ pc' # "done") => pos' > pos]_vars
    /\ [][(pc \in InnerLoops /\ pc' = pc) => pos' > pos]_vars
    /\ [](\A i \in 1..Len(frames) : pos > frames[i].at)
    /\ [](pc = "done" => Kind(pos) = "Eof")
    /\ <>(pc = "done")

\* C3 witness: the parser has returned after a failed attempt, a contract with
\* a field, and a map literal with a pair were parsed.
C3_Witness ==
    /\ pc = "done"
    /\ errors # <<>>
    /\ \E k \in 1..Len(definitions) :
          definitions[k].def = "Contract" /\ definitions[k].fields # <<>>
    /\ \E k \in 1..Len(definitions) :
          /\ definitions[k].def = "Let"
          /\ definitions[k].value.e = "Map"
          /\ definitions[k].value.pairs # <<>>

\* The token stream is that of the source  let's n = v  for an identifier n
\* and a number literal v.
IsSimpleLetSource ==
    /\ Len(toks) = 4
    /\ Kind(1) = "Let" /\ Kind(2) = "Identifier" /\ Kind(3) = "Assign" /\ Kind(4) = "Number"

\* C4: let's n = v parses with no parse error to exactly one Definition, a
\* Let statement with name n, is_tracked = false and value Literal(Number(v)),
\* and analysing that program produces zero diagnostics.
C4_SimpleLetParsesAndChecks ==
    (IsSimpleLetSource /\ Analysed) =>
        /\ errors = <<>>
        /\ definitions =
              << LetDefinition([ name |-> Text(2), is_tracked |-> FALSE,
                                 type_annotation |-> NoAnnotation, span |-> 1 ],
                               NumberLit(Text(4), 4)) >>
        /\ g_errors = <<>>

\* The InfixOperator the parser is to build for an operator token.
InfixOperator(kind) ==
    CASE kind = "Plus" -> "Plus"
      [] kind = "Minus" -> "Minus"
      [] kind = "Asterisk" -> "Multiply"
      [] kind = "Slash" -> "Divide"
      [] kind = "Equals" -> "Equal"
      [] kind = "NotEquals" -> "NotEqual"
      [] kind = "LessThan" -> "LessThan"
      [] OTHER -> "GreaterThan"

\* The token stream is that of  let's r = a op b  for a binary operator op.
IsInfixLetSource ==
    /\ Len(toks) = 6
    /\ Kind(1) = "Let" /\ Kind(2) = "Identifier" /\ Kind(3) = "Assign"
    /\ IsTerminal(4) /\ Kind(5) \in InfixTokenKinds /\ IsTerminal(6)

\* C5: the initializer a op b parses to a single Infix expression with
\* operator op and operands a and b, and nothing is left behind in the stream.
C5_InfixInitializer ==
    (IsInfixLetSource /\ pc = "done") =>
        /\ errors = <<>>
        /\ Len(definitions) = 1
        /\ definitions[1].def = "Let"
        /\ definitions[1].value.e = "Infix"
        /\ definitions[1].value.operator = InfixOperator(Kind(5))
        /\ definitions[1].value.left = TerminalExpr(4)
        /\ definitions[1].value.right = TerminalExpr(6)

-----------------------------------------------------------------------------
\* The Guardian as a state machine over any Program: Guardian::new, then
\* check_program, one step per definition; afterwards a second run with a
\* fresh Guardian over the same definitions in some order, or a call of
\* check_contract_initializer.

\* Bound of the analyzer model: most definitions in a Program.
MaxDefs == 2

\* An enum definition with its variants, each [name, types].
EnumWith(name, variants, span) ==
    [EnumDefinition([name |-> name, span |-> span]) EXCEPT !.variants = variants]

Variant(name, types) == [name |-> name, types |-> types]

\* A let's statement  let's name[: annotation] = value.
Let(name, annotation, value, span) ==
    LetDefinition([ name |-> name, is_tracked |-> FALSE, type_annotation |-> annotation,
                    span |-> span ], value)

\* A map literal's pair.
Pair(key, value) == <<key, value>>

\* The definitions Programs are made of; s is the span of the definition.
DefinitionPool(s) ==
    << Let("x", NoAnnotation, NumberLit("42", s), s),
       Let("x", NoAnnotation, StringLit("a", s), s),
       Let("y", NoAnnotation, IdentifierExpr("x", s), s),
       Let("u", SomeAnnotation("User"),
           MapLit(<< Pair(IdentifierExpr("id", s), NumberLit("42", s)),
                     Pair(IdentifierExpr("name", s), StringLit("Alice", s)) >>, s), s),
       Let("u", SomeAnnotation("User"),
           MapLit(<< Pair(IdentifierExpr("id", s), NumberLit("42", s)) >>, s), s),
       Let("v", SomeAnnotation("User"), MapLit(<<>>, s), s),
       Let("c", NoAnnotation, MemberAccess(IdentifierExpr("Color", s), "Red"), s),
       Let("d", NoAnnotation,
           Call(MemberAccess(IdentifierExpr("Color", s), "Rgb"),
                <<IdentifierExpr("u", s)>>), s),
       Let("w", SomeAnnotation("number"), StringLit("a", s), s),
       Let("b", SomeAnnotation("Box"), MapLit(<<>>, s), s),
       ContractDefinition([name |-> "User", generic_params |-> <<>>, span |-> s],
           << ContractField("id", "number", s, s), ContractField("name", "string", s, s) >>),
       ContractDefinition([name |-> "Box", generic_params |-> <<"T">>, span |-> s],
           << ContractField("value", "T", s, s), ContractField("count", "number", s, s) >>),
       EnumWith("Color", << Variant("Red", <<>>), Variant("Rgb", <<"User">>) >>, s),
       EnumWith("Shade", << Variant("Dark", <<>>), Variant("Dark", <<"User">>),
                            Variant("Dark", <<"User", "User">>) >>, s),
       ContractDefinition([name |-> "Box", generic_params |-> <<"number", "User">>, span |-> s],
           << ContractField("value", "number", s, s), ContractField("owner", "User", s, s) >>),
       AppDefinition([name |-> "Color", span |-> s]),
       FunctionDefinition("f", <<[name |-> "a", type_annotation |-> "number"]>>,
                          SomeAnnotation("User"), <<>>, s) >>

\* The Programs analysed: up to MaxDefs definitions, definition i at span i.
Programs ==
    UNION { { [i \in 1..n |-> DefinitionPool(i)[choice[i]]] :
                choice \in [1..n -> 1..Len(DefinitionPool(1))] } : n \in 1..MaxDefs }

\* A parser has returned a Program and Guardian::new has been called.
GuardInit ==
    /\ LexIdle
    /\ SymIdle
    /\ GuardIdle
    /\ LowerIdle
    /\ toks = <<>>
    /\ pos = 1
    /\ errors = <<>>
    /\ definitions \in Programs
    /\ pc = "done"
    /\ pending = NoPending
    /\ frames = <<>>

\* The orders in which the definitions of a Program can be arranged.
Arrangements(n) == { f \in [1..n -> 1..n] : \A i, j \in 1..n : i # j => f[i] # f[j] }

\* A second analysis: Guardian::new, then check_program over the same
\* definitions arranged in some order (among them the order they had).
AnalyseAgain ==
    /\ Analysed /\ g_first = NoRun /\ g_call = NoCall
    /\ \E f \in Arrangements(Len(definitions)) :
          definitions' = [i \in 1..Len(definitions) |-> definitions[f[i]]]
    /\ g_first' = [done |-> TRUE, program |-> definitions, errors |-> g_errors]
    /\ g_errors' = GuardianNew.errors
    /\ symbol_table' = GuardianNew.symbol_table
    /\ g_next' = 1
    /\ UNCHANGED <<define_log, lexVars, toks, pos, errors, pc, pending, frames, g_call, lowerVars>>

\* The expected types and initializers check_contract_initializer is called with.
InitializerTypes == { Concrete("Box", <<TNumber>>), Concrete("Box", <<TString>>),
                      Concrete("User", <<>>) }
InitializerFields ==
    { << <<"value", NumberLit("1", 1)>> >>, << <<"value", StringLit("a", 1)>> >>,
      << <<"value", NumberLit("1", 1)>>, <<"count", NumberLit("2", 1)>> >> }

\* One call of check_contract_initializer after check_program.
CheckContractInitializer ==
    /\ Analysed /\ g_first = NoRun /\ g_call = NoCall
    /\ \E expected_type \in InitializerTypes, initializer_fields \in InitializerFields :
          LET r == check_contract_initializer(
                       [errors |-> g_errors, symbol_table |-> symbol_table],
                       expected_type, initializer_fields)
          IN  /\ g_errors' = r.g.errors
              /\ symbol_table' = r.g.symbol_table
              /\ g_call' = [ made |-> TRUE, expected_type |-> expected_type,
                             initializer_fields |-> initializer_fields, ty |-> r.ty,
                             errors_before |-> g_errors ]
    /\ UNCHANGED <<define_log, lexVars, parseVars, g_next, g_first, lowerVars>>

GuardNext ==
    \/ CheckDefinition
    \/ AnalyseAgain
    \/ CheckContractInitializer

GuardSpec == GuardInit /\ [][GuardNext]_vars

-----------------------------------------------------------------------------
\* Properties of the Guardian.

\* This step is check_program checking the definition at g_next.
ChecksDefinition == pc = "done" /\ g_next <= Len(definitions) /\ g_next' = g_next + 1

\* The definition is a let's binding without a type annotation.
IsUnannotatedLet(def) == def.def = "Let" /\ ~def.type_annotation.some

\* C11 as stated: for every let's binding without a type annotation, once it
\* is checked the symbol registered under its name has the type inferred for
\* its initializer.
C11_LetTypeIsInferredType ==
    [][(ChecksDefinition /\ IsUnannotatedLet(definitions[g_next])) =>
           /\ resolve(symbol_table', definitions[g_next].name) # NoSymbol
           /\ resolve(symbol_table', definitions[g_next].name).ty
                  = infer_expression_type(symbol_table, definitions[g_next].value)]_vars

\* C11 amended: the same for every such binding whose name is not yet defined
\* when it is checked; and check_program never changes or removes a symbol
\* that is registered, so the type is still that one after check_program.
C11_FirstLetTypeIsInferredType ==
    /\ [][(/\ ChecksDefinition
           /\ IsUnannotatedLet(definitions[g_next])
           /\ resolve(symbol_table, definitions[g_next].name) = NoSymbol) =>
              /\ resolve(symbol_table', definitions[g_next].name) # NoSymbol
              /\ resolve(symbol_table', definitions[g_next].name).ty
                     = infer_expression_type(symbol_table, definitions[g_next].value)]_vars
    /\ [][ChecksDefinition =>
              \A name \in DOMAIN symbol_table[1] :
                  resolve(symbol_table', name) = resolve(symbol_table, name)]_vars

\* C11 witness: check_program is over; a let's binding without annotation was
\* checked after an enum and is registered with the enum's type.
C11_Witness ==
    /\ Analysed
    /\ \E k \in 2..Len(definitions) :
          /\ IsUnannotatedLet(definitions[k])
          /\ definitions[k].value.e = "MemberAccess"
          /\ resolve(symbol_table, definitions[k].name) # NoSymbol
          /\ resolve(symbol_table, definitions[k].name).ty.t = "Enum"

\* The elements of a sequence.
Range(seq) == { seq[i] : i \in 1..Len(seq) }

\* The definitions of the Program have pairwise distinct names.
DistinctNames(program) ==
    \A i, j \in 1..Len(program) : i # j => program[i].name # program[j].name

\* A second analysis run, over the first run's definitions in some order, is over.
AnalysedAgain == Analysed /\ g_first.done

\* C12: for a program with no duplicate names, analysing its definitions in
\* another order yields the same set of semantic diagnostics (a let's statement
\* annotated with a contract type is checked alike before and after the contract).
C12_OrderIndependentDiagnostics ==
    (AnalysedAgain /\ DistinctNames(definitions)) =>
        Range(g_errors) = Range(g_first.errors)

\* The field a map-literal key names, for a string-literal or identifier key.
KeyName(key_expr) == IF key_expr.e = "String" THEN key_expr.v ELSE key_expr.name

\* The definition is a let's statement whose map-literal initializer is
\* checked against a plain contract, every key names a declared field and
\* every value has the declared type.
IsWellTypedInitialization(table, def) ==
    /\ def.def = "Let"
    /\ InitializedContract(table, def) # NoSymbol
    /\ \A i \in 1..Len(def.value.pairs) :
          /\ def.value.pairs[i][1].e \in {"String", "Identifier"}
          /\ KeyName(def.value.pairs[i][1]) \in DOMAIN InitializedContract(table, def).kind.fields
          /\ infer_expression_type(table, def.value.pairs[i][2])
                 = InitializedContract(table, def).kind.fields[KeyName(def.value.pairs[i][1])]

\* The declared fields of the contract that the map literal does not supply.
AbsentFields(table, def) ==
    DOMAIN InitializedContract(table, def).kind.fields
        \ { KeyName(def.value.pairs[i][1]) : i \in 1..Len(def.value.pairs) }

\* The diagnostics the initializer check pushed in this step: those the step
\* added, without the DuplicateDeclaration that check_let_statement pushes
\* last when the variable's name is already defined.
InitializationDiagnostics ==
    LET added == SubSeq(g_errors', Len(g_errors) + 1, Len(g_errors'))
    IN  IF resolve(symbol_table, definitions[g_next].name) # NoSymbol
        THEN SubSeq(added, 1, Len(added) - 1)
        ELSE added

\* C13: checking a well-typed map-literal initializer against a plain contract
\* records exactly one MissingField diagnostic, naming the field, for each
\* declared field absent from the literal and no other diagnostic (none when
\* every declared field is supplied).
C13_ExactlyTheMissingFields ==
    [][(ChecksDefinition /\ IsWellTypedInitialization(symbol_table, definitions[g_next])) =>
           /\ SubSeq(g_errors', 1, Len(g_errors)) = g_errors
           /\ \A i \in 1..Len(InitializationDiagnostics) :
                 InitializationDiagnostics[i].error_type = "MissingField"
           /\ { InitializationDiagnostics[i].name : i \in 1..Len(InitializationDiagnostics) }
                  = AbsentFields(symbol_table, definitions[g_next])
           /\ Len(InitializationDiagnostics)
                  = Cardinality(AbsentFields(symbol_table, definitions[g_next]))]_vars

\* C13 witness: a literal that omits the field name was checked against the
\* contract User and the only diagnostic is MissingField for name.
C13_Witness ==
    /\ Analysed
    /\ Len(definitions) = 2
    /\ definitions[1].def = "Contract"
    /\ definitions[2].def = "Let" /\ definitions[2].value.e = "Map"
    /\ Len(definitions[2].value.pairs) = 1
    /\ g_errors = <<SemanticError("MissingField", "name", definitions[2].span)>>

\* The definition is a let's statement whose initializer is an identifier
\* that the scope chain does not define.
IsLetOfUndefinedIdentifier(table, def) ==
    /\ def.def = "Let"
    /\ def.value.e = "Identifier"
    /\ resolve(table, def.value.name) = NoSymbol

\* C14: analysing a let's statement whose initializer is an identifier not
\* defined in the scope chain records at least one semantic diagnostic.
C14_UndefinedIdentifierIsReported ==
    [][(ChecksDefinition /\ IsLetOfUndefinedIdentifier(symbol_table, definitions[g_next])) =>
           Len(g_errors') > Len(g_errors)]_vars

\* The definition is a contract with generic parameters.
IsGenericContract(def) == def.def = "Contract" /\ def.generic_params # <<>>

\* The type the field is to be stored with: Generic(param) when its declared
\* type is a parameter name, otherwise its type resolved in the outer scope.
ExpectedFieldType(field, params, table) ==
    IF field.type_ann.ti = "Simple" /\ field.type_ann.name \in Range(params)
    THEN Generic(field.type_ann.name)
    ELSE resolve_type_identifier(field.type_ann, table)

\* After the step the outer scope holds the contract as a GenericContract
\* with its parameter list and the expected type of every field.
StoredAsGenericContract(def) ==
    /\ resolve(symbol_table', def.name) # NoSymbol
    /\ resolve(symbol_table', def.name).kind.k = "GenericContract"
    /\ resolve(symbol_table', def.name).kind.params = def.generic_params
    /\ DOMAIN resolve(symbol_table', def.name).kind.fields
           = { def.fields[i].name : i \in 1..Len(def.fields) }
    /\ \A i \in 1..Len(def.fields) :
          resolve(symbol_table', def.name).kind.fields[def.fields[i].name]
              = ExpectedFieldType(def.fields[i], def.generic_params, symbol_table)

\* C15 as stated: checking a contract with generic parameters defines it in
\* the outer scope as a GenericContract carrying its parameter list, every
\* field declared with a parameter name stored as Generic(param) and every
\* other field as its resolved type, and no parameter name becomes resolvable
\* in the outer scope that was not resolvable before.
C15_GenericContractDefinition ==
    [][(ChecksDefinition /\ IsGenericContract(definitions[g_next])) =>
           /\ StoredAsGenericContract(definitions[g_next])
           /\ \A p \in Range(definitions[g_next].generic_params) :
                 resolve(symbol_table, p) = NoSymbol => resolve(symbol_table', p) = NoSymbol]_vars

\* The cases in which check_contract_definition stores what C15 describes:
\* the contract's name is not yet defined, no parameter has the name of a
\* built-in type, and no two fields share a name.
IsFreshGenericContract(table, def) ==
    /\ IsGenericContract(def)
    /\ resolve(table, def.name) = NoSymbol
    /\ \A p \in Range(def.generic_params) : ~IsBuiltinTypeName(p)
    /\ \A i, j \in 1..Len(def.fields) : i # j => def.fields[i].name # def.fields[j].name

\* C15, amended: when the contract's name is not yet defined, no generic
\* parameter is named like a built-in type and the field names are distinct,
\* the contract is stored in the outer scope as a GenericContract with its
\* parameter list, parameter-typed fields as Generic(param) and other fields
\* as their resolved type; every parameter name other than the contract's own
\* name resolves in the outer scope exactly as it did before the check.
C15_FreshGenericContractDefinition ==
    [][(ChecksDefinition /\ IsFreshGenericContract(symbol_table, definitions[g_next])) =>
           /\ StoredAsGenericContract(definitions[g_next])
           /\ g_errors' = g_errors
           /\ \A p \in Range(definitions[g_next].generic_params) :
                 p # definitions[g_next].name =>
                     resolve(symbol_table', p) = resolve(symbol_table, p)]_vars

\* C15 witness: contract Box<T> with value: T and count: number was checked;
\* Box is a GenericContract over <<T>> whose field value is Generic(T) and
\* whose field count is Number, and T is not resolvable in the outer scope.
C15_Witness ==
    /\ Analysed
    /\ resolve(symbol_table, "Box") # NoSymbol
    /\ resolve(symbol_table, "Box").kind
           = KindGenericContract(<<"T">>, [f \in {"value", "count"} |->
                                              IF f = "value" THEN Generic("T") ELSE TNumber])
    /\ resolve(symbol_table, "T") = NoSymbol

\* check_contract_initializer was called with an instantiation, by the single
\* argument Number, of a generic contract with one parameter, and the
\* initializer gives a String-typed value to a field declared with that
\* parameter.
StringForNumberParameter ==
    /\ g_call.made
    /\ g_call.expected_type.t = "Concrete"
    /\ g_call.expected_type.args = <<TNumber>>
    /\ resolve(symbol_table, g_call.expected_type.name) # NoSymbol
    /\ resolve(symbol_table, g_call.expected_type.name).kind.k = "GenericContract"
    /\ Len(resolve(symbol_table, g_call.expected_type.name).kind.params) = 1
    /\ \E i \in 1..Len(g_call.initializer_fields) :
          LET kind == resolve(symbol_table, g_call.expected_type.name).kind
              field_name == g_call.initializer_fields[i][1]
          IN  /\ field_name \in DOMAIN kind.fields
              /\ kind.fields[field_name] = Generic(kind.params[1])
              /\ ConcreteFieldType(kind, g_call.expected_type.args, field_name) = TNumber
              /\ infer_expression_type(symbol_table, g_call.initializer_fields[i][2]) = TString

\* C16: checking an initializer against the instantiation, with argument
\* Number, of a contract with generic parameters [T] and a field of type T
\* fails with a TypeMismatch diagnostic when the field's value is String-typed.
C16_StringForNumberIsTypeMismatch ==
    StringForNumberParameter =>
        \E j \in (Len(g_call.errors_before) + 1)..Len(g_errors) :
            g_errors[j].error_type = "TypeMismatch"

\* The indices of the definition's variants that carry no data.
ZeroArgumentVariants(def) == { i \in 1..Len(def.variants) : def.variants[i].types = <<>> }

\* The member access EnumName.V.
VariantAccess(def, i) ==
    MemberAccess(IdentifierExpr(def.name, def.span), def.variants[i].name)

\* The type is the Enum type of that name.
IsEnumTypeNamed(ty, name) == ty.t = "Enum" /\ ty.name = name

\* C17 as stated: after check_enum_definition of an enum that declares a
\* zero-argument variant V, the member access EnumName.V has the Enum type
\* named EnumName, never Error.
C17_ZeroArgumentVariantAccess ==
    [][(ChecksDefinition /\ definitions[g_next].def = "Enum") =>
           \A i \in ZeroArgumentVariants(definitions[g_next]) :
               IsEnumTypeNamed(
                   infer_expression_type(symbol_table', VariantAccess(definitions[g_next], i)),
                   definitions[g_next].name)]_vars

\* C17, amended: the same when the enum's name is not already defined and no
\* other variant of the definition has V's name.
C17_FreshZeroArgumentVariantAccess ==
    [][(ChecksDefinition /\ definitions[g_next].def = "Enum"
            /\ resolve(symbol_table, definitions[g_next].name) = NoSymbol) =>
           \A i \in ZeroArgumentVariants(definitions[g_next]) :
               (\A j \in 1..Len(definitions[g_next].variants) :
                    j # i => definitions[g_next].variants[j].name
                                 # definitions[g_next].variants[i].name)
               => IsEnumTypeNamed(
                      infer_expression_type(symbol_table', VariantAccess(definitions[g_next], i)),
                      definitions[g_next].name)]_vars

\* C17 witness: enum Color with the zero-argument variant Red was checked and
\* Color.Red has the Enum type Color.
C17_Witness ==
    /\ Analysed
    /\ \E i \in 1..Len(definitions) :
          /\ definitions[i].def = "Enum" /\ definitions[i].name = "Color"
          /\ ZeroArgumentVariants(definitions[i]) # {}
    /\ IsEnumTypeNamed(
           infer_expression_type(symbol_table, MemberAccess(IdentifierExpr("Color", 1), "Red")),
           "Color")

\* The largest number of arguments of the calls typed below.
MaxArgs == 3

\* The argument lists of the calls: up to MaxArgs arguments, each the variable
\* u or a number literal.
ArgumentLists ==
    UNION { [1..n -> {IdentifierExpr("u", 1), NumberLit("1", 1)}] : n \in 0..MaxArgs }

\* The indices of the definition's variants that carry data.
DataCarryingVariants(def) == { i \in 1..Len(def.variants) : def.variants[i].types # <<>> }

\* The call EnumName.V(args).
VariantCall(def, i, args) == Call(VariantAccess(def, i), args)

\* C18 as stated: after an enum with a data-carrying variant V of arity n is
\* checked, the call EnumName.V(args) with m # n arguments is typed Error,
\* whatever the arguments are.
C18_WrongArityIsError ==
    [][(ChecksDefinition /\ definitions[g_next].def = "Enum") =>
           \A i \in DataCarryingVariants(definitions[g_next]), args \in ArgumentLists :
               Len(args) # Len(definitions[g_next].variants[i].types)
               => infer_expression_type(symbol_table', VariantCall(definitions[g_next], i, args))
                      = TError]_vars

\* C18, amended: the same when the enum's name is not already defined and no
\* other variant of the definition has V's name.
C18_FreshWrongArityIsError ==
    [][(ChecksDefinition /\ definitions[g_next].def = "Enum"
            /\ resolve(symbol_table, definitions[g_next].name) = NoSymbol) =>
           \A i \in DataCarryingVariants(definitions[g_next]), args \in ArgumentLists :
               (/\ Len(args) # Len(definitions[g_next].variants[i].types)
                /\ \A j \in 1..Len(definitions[g_next].variants) :
                      j # i => definitions[g_next].variants[j].name
                                   # definitions[g_next].variants[i].name)
               => infer_expression_type(symbol_table', VariantCall(definitions[g_next], i, args))
                      = TError]_vars

\* C18 witness: with u a variable of type User and enum Color checked,
\* Color.Rgb(u) has the Enum type Color while Color.Rgb() and Color.Rgb(u, u)
\* are Error.
C18_Witness ==
    /\ Analysed
    /\ \E i \in 1..Len(definitions) :
          definitions[i].def = "Enum" /\ definitions[i].name = "Color"
    /\ LET Rgb == MemberAccess(IdentifierExpr("Color", 1), "Rgb")
           u == IdentifierExpr("u", 1)
       IN  /\ IsEnumTypeNamed(infer_expression_type(symbol_table, Call(Rgb, <<u>>)), "Color")
           /\ infer_expression_type(symbol_table, Call(Rgb, <<>>)) = TError
           /\ infer_expression_type(symbol_table, Call(Rgb, <<u, u>>)) = TError

\* C19: two analysis runs, each with a fresh Guardian, over the same Program
\* produce identical diagnostics lists: the same diagnostics in the same order.
C19_SameProgramSameDiagnostics ==
    (AnalysedAgain /\ definitions = g_first.program) => g_errors = g_first.errors

-----------------------------------------------------------------------------
\* The Lowerer: src/Aegis_Compiler/Src/Engine /lowerer.rs and ail.rs.

\* AIL instructions.
PushI64(n) == [op |-> "PushI64", n |-> n]
Store(name) == [op |-> "Store", name |-> name]
Load(name) == [op |-> "Load", name |-> name]
Add == [op |-> "Add"]
Subtract == [op |-> "Subtract"]
Multiply == [op |-> "Multiply"]
Divide == [op |-> "Divide"]
GreaterThan == [op |-> "GreaterThan"]
Equals == [op |-> "Equals"]
Label(label) == [op |-> "Label", label |-> label]
Jump(label) == [op |-> "Jump", label |-> label]
JumpIfFalse(label) == [op |-> "JumpIfFalse", label |-> label]
Return == [op |-> "Return"]

\* InstructionSequence::new
InstructionSequence(name) == [name |-> name, instructions |-> <<>>]

\* Statements other than let's, and the if-expression the Lowerer matches on.
ForStatement(variable_name, collection, body, span) ==
    [ def |-> "For", variable_name |-> variable_name, collection |-> collection,
      body |-> body, span |-> span ]
ReturnStatement(value, span) == [def |-> "Return", value |-> value, span |-> span]
BlockStatement(statements, span) == [def |-> "Block", statements |-> statements, span |-> span]
ExpressionStatement(expression, span) ==
    [def |-> "Expression", expression |-> expression, span |-> span]
IfExpression(condition, consequence, alternative, span) ==
    [ e |-> "If", condition |-> condition, consequence |-> consequence,
      alternative |-> alternative, span |-> span ]

NoStatement == [some |-> FALSE]
SomeStatement(stmt) == [some |-> TRUE, stmt |-> stmt]

\* Definition::Statement
IsStatement(def) == def.def \in {"Let", "For", "Return", "Block", "Expression"}

\* The text of a number literal is a sequence of characters here.
IsDigit(c) == c \in {"0", "1", "2", "3", "4", "5", "6", "7", "8", "9"}

DigitValue(c) ==
    CASE c = "0" -> 0 [] c = "1" -> 1 [] c = "2" -> 2 [] c = "3" -> 3 [] c = "4" -> 4
      [] c = "5" -> 5 [] c = "6" -> 6 [] c = "7" -> 7 [] c = "8" -> 8 [] OTHER -> 9

\* The value of the digits text[1..i].
RECURSIVE DigitsValue(_, _)
DigitsValue(text, i) ==
    IF i = 0 THEN 0 ELSE 10 * DigitsValue(text, i - 1) + DigitValue(text[i])

\* The digits without their leading zeros (a single 0 is kept).
RECURSIVE StripLeadingZeros(_)
StripLeadingZeros(digits) ==
    IF Len(digits) > 1 /\ digits[1] = "0" THEN StripLeadingZeros(Tail(digits)) ELSE digits

\* i64::MAX = 9223372036854775807 and the magnitude of i64::MIN, as digits.
I64MaxDigits ==
    << "9", "2", "2", "3", "3", "7", "2", "0", "3", "6",
       "8", "5", "4", "7", "7", "5", "8", "0", "7" >>
I64MinDigits == [I64MaxDigits EXCEPT ![19] = "8"]

\* a <= b for two runs of digits of the same length.
DigitsLeq(a, b) ==
    \/ a = b
    \/ \E i \in 1..Len(a) :
          /\ DigitValue(a[i]) < DigitValue(b[i])
          /\ \A j \in 1..(i - 1) : a[j] = b[j]

\* The digits, read with the given sign, are a value of the 64-bit range.
FitsI64(negative, digits) ==
    LET significant == StripLeadingZeros(digits)
    IN  \/ Len(significant) < 19
        \/ /\ Len(significant) = 19
           /\ DigitsLeq(significant, IF negative THEN I64MinDigits ELSE I64MaxDigits)

\* n.parse::<i64>().unwrap_or(0): an optional sign and at least one digit,
\* nothing else, and a value within the 64-bit range; any other text gives 0.
ParseI64(text) ==
    LET signed == text # <<>> /\ text[1] \in {"+", "-"}
        negative == signed /\ text[1] = "-"
        digits == IF signed THEN Tail(text) ELSE text
    IN  IF /\ digits # <<>>
           /\ \A i \in 1..Len(digits) : IsDigit(digits[i])
           /\ FitsI64(negative, digits)
        THEN IF negative
             THEN 0 - DigitsValue(digits, Len(digits))
             ELSE DigitsValue(digits, Len(digits))
        ELSE 0

\* A label that keeps only the parity of the counter.
FormatLabelParity(n) == "L" \o ToString(n % 2)

\* format!("L{}", label_counter)
FormatLabel(n) == "L" \o ToString(n)

\* seq.instructions.push(instruction); l is [label_counter, instructions].
Push(l, instruction) == [l EXCEPT !.instructions = Append(@, instruction)]

RECURSIVE lower_statement(_, _)
RECURSIVE lower_expression(_, _)
RECURSIVE LowerStatements(_, _, _)

\* The loop of the Block arm of lower_statement.
LowerStatements(l, statements, i) ==
    IF i > Len(statements) THEN l
    ELSE LowerStatements(lower_statement(l, statements[i]), statements, i + 1)

lower_statement(l, stmt) ==
    CASE stmt.def = "Let" -> Push(lower_expression(l, stmt.value), Store(stmt.name))
      [] stmt.def = "Expression" -> lower_expression(l, stmt.expression)
      [] stmt.def = "Return" -> Push(lower_expression(l, stmt.value), Return)
      [] stmt.def = "Block" -> LowerStatements(l, stmt.statements, 1)
      [] OTHER -> l

\* The If arm takes two labels with new_label before it lowers anything.
lower_expression(l, expr) ==
    CASE expr.e = "Number" -> Push(l, PushI64(ParseI64(expr.v)))
      [] expr.e = "Identifier" -> Push(l, Load(expr.name))
      [] expr.e = "Infix" ->
            Push(lower_expression(lower_expression(l, expr.left), expr.right), Add)
      [] expr.e = "If" ->
            LET else_label == FormatLabel(l.label_counter)
                end_label == FormatLabel(l.label_counter + 1)
                labelled == [l EXCEPT !.label_counter = @ + 2]
                tested == Push(lower_expression(labelled, expr.condition),
                               JumpIfFalse(else_label))
                consequent == lower_statement(tested, expr.consequence)
                jumped == Push(Push(consequent, Jump(end_label)), Label(else_label))
                alternative == IF expr.alternative.some
                               THEN lower_statement(jumped, expr.alternative.stmt)
                               ELSE jumped
            IN  Push(alternative, Label(end_label))
      [] OTHER -> l

\* The most definitions of a Program the Lowerer is given, and the label
\* counter up to which lower_program is called once more.
MaxLowerDefs == 3
MaxLabels == 2

\* The definitions the lowered Programs are made of; s is the span.
LowerPool(s) ==
    << Let("x", NoAnnotation, NumberLit(<<"1", "2">>, s), s),
       ExpressionStatement(
           IfExpression(IdentifierExpr("x", s),
               BlockStatement(<< Let("x", NoAnnotation,
                                     Infix("Plus", IdentifierExpr("x", s),
                                           NumberLit(<<"2">>, s)), s) >>, s),
               SomeStatement(ReturnStatement(IdentifierExpr("x", s), s)), s), s),
       Let("d", NoAnnotation,
           Infix("Minus", IdentifierExpr("x", s), NumberLit(<<"2">>, s)), s),
       Let("n", NoAnnotation, NumberLit(<<"0", "0", "7">>, s), s),
       Let("big", NoAnnotation, NumberLit([I64MaxDigits EXCEPT ![19] = "8"], s), s),
       Let("s", NoAnnotation, StringLit("a", s), s),
       ForStatement("i", IdentifierExpr("x", s),
                    BlockStatement(<<ReturnStatement(IdentifierExpr("i", s), s)>>, s), s),
       FunctionDefinition("f", <<[name |-> "a", type_annotation |-> "number"]>>, NoAnnotation,
           << Let("b", NoAnnotation, NumberLit(<<"1", ".", "5">>, s), s),
              ExpressionStatement(
                  IfExpression(IdentifierExpr("a", s),
                      BlockStatement(<<
                          ExpressionStatement(
                              IfExpression(IdentifierExpr("b", s),
                                  BlockStatement(
                                      <<ReturnStatement(IdentifierExpr("b", s), s)>>, s),
                                  NoStatement, s), s) >>, s),
                      NoStatement, s), s) >>, s),
       FunctionDefinition("main", <<>>, NoAnnotation,
           <<ExpressionStatement(StringLit("a", s), s)>>, s),
       AppDefinition([name |-> "Color", span |-> s]),
       ContractDefinition([name |-> "User", generic_params |-> <<>>, span |-> s],
           <<ContractField("id", "number", s, s)>>),
       EnumWith("Color", <<Variant("Red", <<>>)>>, s) >>

LowerPrograms ==
    UNION { { [i \in 1..n |-> LowerPool(i)[choice[i]]] :
                choice \in [1..n -> 1..Len(LowerPool(1))] } : n \in 1..MaxLowerDefs }

\* A Program has been parsed and Lowerer::new has been called.
LowerInit ==
    /\ LexIdle
    /\ SymIdle
    /\ GuardIdle
    /\ LowerIdle
    /\ toks = <<>>
    /\ pos = 1
    /\ errors = <<>>
    /\ definitions \in LowerPrograms
    /\ pc = "done"
    /\ pending = NoPending
    /\ frames = <<>>

\* lower_program up to its loop; the Lowerer may have lowered the Program before.
LowerProgram ==
    /\ l_pc = "new" \/ (l_pc = "returned" /\ label_counter <= MaxLabels)
    /\ sequences' = <<>>
    /\ main_seq' = InstructionSequence("main")
    /\ l_next' = 1
    /\ l_pc' = "loop"
    /\ UNCHANGED <<label_counter, lexVars, symVars, parseVars, guardVars>>

\* One iteration of the loop of lower_program.
LowerDefinition ==
    /\ l_pc = "loop"
    /\ l_next <= Len(definitions)
    /\ \E def \in {definitions[l_next]} :
          IF IsStatement(def)
          THEN \E r \in {lower_statement([ label_counter |-> label_counter,
                                           instructions |-> main_seq.instructions ], def)} :
                  /\ main_seq' = [main_seq EXCEPT !.instructions = r.instructions]
                  /\ label_counter' = r.label_counter
                  /\ UNCHANGED sequences
          ELSE IF def.def = "Function"
          THEN \E r \in {lower_statement([ label_counter |-> label_counter,
                                           instructions |-> <<>> ],
                                         BlockStatement(def.body, def.span))} :
                  /\ sequences' = Append(sequences, [ name |-> def.name,
                                                      instructions |-> r.instructions ])
                  /\ label_counter' = r.label_counter
                  /\ UNCHANGED main_seq
          ELSE UNCHANGED <<label_counter, sequences, main_seq>>
    /\ l_next' = l_next + 1
    /\ UNCHANGED <<l_pc, lexVars, symVars, parseVars, guardVars>>

\* lower_program returning with main_seq pushed last.
LowerProgramReturnMainLast ==
    /\ l_pc = "loop"
    /\ l_next > Len(definitions)
    /\ sequences' = Append(sequences, main_seq)
    /\ l_pc' = "returned"
    /\ UNCHANGED <<label_counter, main_seq, l_next, lexVars, symVars, parseVars, guardVars>>

\* sequences.insert(0, main_seq); sequences
LowerProgramReturn ==
    /\ l_pc = "loop"
    /\ l_next > Len(definitions)
    /\ sequences' = <<main_seq>> \o sequences
    /\ l_pc' = "returned"
    /\ UNCHANGED <<label_counter, main_seq, l_next, lexVars, symVars, parseVars, guardVars>>

LowerNext ==
    \/ LowerProgram
    \/ LowerDefinition
    \/ LowerProgramReturn

LowerSpec == LowerInit /\ [][LowerNext]_vars

-----------------------------------------------------------------------------
\* Properties of the Lowerer.

\* lower_program has returned its list, held in sequences.
Returned == l_pc = "returned"

\* What a definition is lowered from: a bare statement itself, a function's
\* body as a block; App, Contract and Enum definitions have nothing to lower.
Lowered(def) ==
    IF IsStatement(def) THEN def
    ELSE IF def.def = "Function" THEN BlockStatement(def.body, def.span)
    ELSE BlockStatement(<<>>, def.span)

\* The number of labels the lowering of a definition takes.
LabelsUsed(def) ==
    lower_statement([label_counter |-> 0, instructions |-> <<>>], Lowered(def)).label_counter

\* The labels taken by the definitions before the i-th.
RECURSIVE LabelsUsedBefore(_, _)
LabelsUsedBefore(program, i) ==
    IF i <= 1 THEN 0
    ELSE LabelsUsedBefore(program, i - 1) + LabelsUsed(program[i - 1])

\* The lowering of the i-th definition on its own, with the label counter it
\* meets when the call ends at the counter value last.
Lowering(program, i, last) ==
    lower_statement(
        [ label_counter |-> last - LabelsUsedBefore(program, Len(program) + 1)
                                 + LabelsUsedBefore(program, i),
          instructions |-> <<>> ],
        Lowered(program[i])).instructions

\* The lowerings of the bare statements among definitions i.. in source order.
RECURSIVE StatementLowerings(_, _, _)
StatementLowerings(program, i, last) ==
    IF i > Len(program) THEN <<>>
    ELSE (IF IsStatement(program[i]) THEN Lowering(program, i, last) ELSE <<>>)
         \o StatementLowerings(program, i + 1, last)

\* The indices of the Function definitions, in source order.
RECURSIVE FunctionIndices(_, _)
FunctionIndices(program, i) ==
    IF i > Len(program) THEN <<>>
    ELSE (IF program[i].def = "Function" THEN <<i>> ELSE <<>>)
         \o FunctionIndices(program, i + 1)

\* This step is the loop of lower_program taking the definition at l_next.
LowersDefinition == l_pc = "loop" /\ l_next <= Len(definitions) /\ l_next' = l_next + 1

\* C20: the list lower_program returns begins with the sequence named main,
\* holding the lowering of every top-level bare statement in source order,
\* followed by one sequence per Function definition, named after the function
\* and holding its body's lowering, in source order; App, Contract and Enum
\* definitions contribute no sequence and no instruction.
C20_MainFirstThenFunctions ==
    /\ [](Returned =>
            /\ Len(sequences) = 1 + Len(FunctionIndices(definitions, 1))
            /\ sequences[1].name = "main"
            /\ sequences[1].instructions = StatementLowerings(definitions, 1, label_counter)
            /\ \A k \in 1..Len(FunctionIndices(definitions, 1)) :
                  /\ sequences[k + 1].name
                         = definitions[FunctionIndices(definitions, 1)[k]].name
                  /\ sequences[k + 1].instructions
                         = Lowering(definitions, FunctionIndices(definitions, 1)[k],
                                    label_counter))
    /\ [][(LowersDefinition /\ definitions[l_next].def \in {"App", "Contract", "Enum"}) =>
              UNCHANGED <<sequences, main_seq, label_counter>>]_vars

\* C20 witness: a function, then a Contract, then a let's statement were
\* lowered; the list is the sequence main with the let's two instructions
\* followed by the function's sequence.
C20_Witness ==
    /\ Returned
    /\ Len(definitions) = 3
    /\ definitions[1].def = "Function" /\ definitions[1].name = "f"
    /\ definitions[2].def = "Contract"
    /\ definitions[3].def = "Let"
    /\ Len(sequences) = 2
    /\ sequences[1] = [name |-> "main", instructions |-> <<PushI64(12), Store("x")>>]
    /\ sequences[2].name = "f"
    /\ Len(sequences[2].instructions) > 0

\* The places <<k, i>> of the returned list: instruction i of sequence k.
Places ==
    UNION { { <<k, i>> : i \in 1..Len(sequences[k].instructions) } : k \in 1..Len(sequences) }

\* The instruction at a place.
At(p) == sequences[p[1]].instructions[p[2]]

\* C21: in the list a lowering pass returns no label is defined by more than
\* one Label instruction across all sequences, and every Jump or JumpIfFalse
\* targets a label defined by exactly one Label instruction of its own sequence.
C21_LabelsUniqueAndJumpsLocal ==
    Returned =>
        /\ \A p, q \in Places :
              (At(p).op = "Label" /\ At(q).op = "Label" /\ At(p).label = At(q).label)
                  => p = q
        /\ \A p \in Places :
              At(p).op \in {"Jump", "JumpIfFalse"} =>
                  Cardinality({ q \in Places : /\ q[1] = p[1]
                                               /\ At(q) = Label(At(p).label) }) = 1

\* C21 witness: the returned list holds Label instructions in two sequences,
\* one of them with the four labels of a nested if-expression.
C21_Witness ==
    /\ Returned
    /\ \E p, q \in Places : p[1] # q[1] /\ At(p).op = "Label" /\ At(q).op = "Label"
    /\ \E k \in 1..Len(sequences) :
          Cardinality({ p \in Places : p[1] = k /\ At(p).op = "Label" }) >= 4

\* The instruction that matches an infix operator.
MatchingInstruction(operator) ==
    CASE operator = "Plus" -> Add
      [] operator = "Minus" -> Subtract
      [] operator = "Multiply" -> Multiply
      [] operator = "Divide" -> Divide
      [] operator = "GreaterThan" -> GreaterThan
      [] operator = "Equal" -> Equals

\* The definition is a top-level let's statement of an infix expression with
\* one of the six operators that have an instruction.
IsInfixLet(def) ==
    /\ def.def = "Let"
    /\ def.value.e = "Infix"
    /\ def.value.operator \in {"Plus", "Minus", "Multiply", "Divide", "GreaterThan", "Equal"}

\* C22: lowering an Infix expression emits the left operand's instructions,
\* the right operand's instructions, then the one instruction that matches
\* its operator; here for the initializer of a let's statement, whose Store
\* follows.
C22_InfixEmitsMatchingInstruction ==
    [][(LowersDefinition /\ IsInfixLet(definitions[l_next])) =>
           main_seq'.instructions =
               lower_expression(
                   lower_expression([ label_counter |-> label_counter,
                                      instructions |-> main_seq.instructions ],
                                    definitions[l_next].value.left),
                   definitions[l_next].value.right).instructions
               \o << MatchingInstruction(definitions[l_next].value.operator),
                     Store(definitions[l_next].name) >>]_vars

\* C23: while the parser is in a contract's field list, meeting the keyword
\* of a top-level construct (let's, contract, app or enum) ends the list:
\* the keyword is not consumed as part of the contract and the parser leaves
\* the field loop with the keyword as its current token.
C23_TopLevelKeywordEndsFieldList ==
    [][(pc = "fields" /\ Kind(pos) \in {"Let", "Contract", "App", "Enum"}) =>
           (pos' = pos /\ pc' # "fields")]_vars

\* The definition is a let's statement annotated with a custom type name,
\* with a map-literal initializer, and the name does not resolve to a symbol
\* of kind Contract.
IsInitializationOfNonContract(table, def) ==
    /\ def.def = "Let"
    /\ def.type_annotation.some
    /\ ~IsBuiltinTypeName(def.type_annotation.name)
    /\ def.value.e = "Map"
    /\ \/ resolve(table, def.type_annotation.name) = NoSymbol
       \/ resolve(table, def.type_annotation.name).kind.k # "Contract"

\* C24: checking a let's statement annotated with a custom type name that has
\* a map-literal initializer, when the name does not resolve to a plain
\* Contract, records an UndefinedType diagnostic.
C24_NonContractIsUndefinedType ==
    [][(ChecksDefinition /\ IsInitializationOfNonContract(symbol_table, definitions[g_next])) =>
           \E j \in (Len(g_errors) + 1)..Len(g_errors') :
               g_errors'[j].error_type = "UndefinedType"]_vars

\* No other variant of the definition has the name of variant i.
VariantNameUsedOnce(def, i) ==
    \A j \in 1..Len(def.variants) : j # i => def.variants[j].name # def.variants[i].name

\* C25: after an enum is checked (its name not defined before, the variant's
\* name used once), the call EnumName.Variant(args) has the enum type only if
\* the variant carries data, the number of arguments is its arity and every
\* argument has the declared type; in every other case, a zero-argument
\* variant called with no argument among them, the call is typed Error.
C25_CallNeedsDataCarryingVariant ==
    [][(ChecksDefinition /\ definitions[g_next].def = "Enum"
            /\ resolve(symbol_table, definitions[g_next].name) = NoSymbol) =>
           \A i \in 1..Len(definitions[g_next].variants), args \in ArgumentLists :
               VariantNameUsedOnce(definitions[g_next], i) =>
                   IF /\ definitions[g_next].variants[i].types # <<>>
                      /\ Len(args) = Len(definitions[g_next].variants[i].types)
                      /\ \A j \in 1..Len(args) :
                            infer_expression_type(symbol_table', args[j])
                                = Custom(definitions[g_next].variants[i].types[j])
                   THEN IsEnumTypeNamed(
                            infer_expression_type(symbol_table',
                                                  VariantCall(definitions[g_next], i, args)),
                            definitions[g_next].name)
                   ELSE infer_expression_type(symbol_table',
                                              VariantCall(definitions[g_next], i, args))
                            = TError]_vars

-----------------------------------------------------------------------------
\* The Guardian on when-expressions.

\* The most cases of a when-expression analysed.
MaxCases == 3

\* The cases the when-expressions are made of; their bodies are typed
\* Number, String, Number, the enum Color, Number and Error.
CasePool ==
    { WhenCase(LiteralPattern(NumberLit("1", 3)), NumberLit("10", 3)),
      WhenCase(IdentifierPattern("n"), StringLit("a", 3)),
      WhenCase(ElsePattern, NumberLit("0", 3)),
      WhenCase(EnumVariantPattern("Color", "Red"), IdentifierExpr("c", 3)),
      WhenCase(EnumVariantPattern("Color", "Blue"), NumberLit("2", 3)),
      WhenCase(ElsePattern, IdentifierExpr("zz", 3)) }

\* when-expressions over a subject of the enum Color or a number.
WhenExpressions ==
    { When(value, cases) :
        value \in {IdentifierExpr("c", 3), NumberLit("5", 3)},
        cases \in UNION { [1..n -> CasePool] : n \in 0..MaxCases } }

\* enum Color: Red, Rgb(User);  let's c = Color.Red;  let's r = when ...
WhenPrograms ==
    { << EnumWith("Color", << Variant("Red", <<>>), Variant("Rgb", <<"User">>) >>, 1),
         Let("c", NoAnnotation, MemberAccess(IdentifierExpr("Color", 2), "Red"), 2),
         Let("r", NoAnnotation, when_expr, 3) >> : when_expr \in WhenExpressions }

WhenInit ==
    /\ LexIdle
    /\ SymIdle
    /\ GuardIdle
    /\ LowerIdle
    /\ toks = <<>>
    /\ pos = 1
    /\ errors = <<>>
    /\ definitions \in WhenPrograms
    /\ pc = "done"
    /\ pending = NoPending
    /\ frames = <<>>

WhenSpec == WhenInit /\ [][CheckDefinition]_vars

\* The types of the case bodies of a when-expression, in order.
CaseTypes(table, when_expr) ==
    [i \in 1..Len(when_expr.cases) |-> infer_expression_type(table, when_expr.cases[i].body)]

\* The definition is a let's statement of a when-expression all of whose
\* patterns are accepted.
IsLetOfAcceptedWhen(table, def) ==
    /\ def.def = "Let"
    /\ ~def.type_annotation.some
    /\ def.value.e = "When"
    /\ \A i \in 1..Len(def.value.cases) :
          ~WhenCaseRejected(table, infer_expression_type(table, def.value.value),
                            def.value.cases[i].pattern)

\* C26: a when-expression all of whose patterns are accepted is typed Nothing
\* when it has no cases, with its first case body's type when all case-body
\* types are equal, and Error as soon as any two of them differ; here as the
\* type given to the variable the when-expression initializes.
C26_WhenTypeIsCommonCaseType ==
    [][(ChecksDefinition /\ IsLetOfAcceptedWhen(symbol_table, definitions[g_next])) =>
           resolve(symbol_table', definitions[g_next].name).ty =
               (IF definitions[g_next].value.cases = <<>> THEN TNothing
                ELSE IF \A i, j \in 1..Len(definitions[g_next].value.cases) :
                            CaseTypes(symbol_table, definitions[g_next].value)[i]
                                = CaseTypes(symbol_table, definitions[g_next].value)[j]
                THEN CaseTypes(symbol_table, definitions[g_next].value)[1]
                ELSE TError)]_vars

\* C26 witness: a when-expression with accepted patterns whose three case
\* bodies are typed Number, String, Number was analysed and r is typed Error.
C26_Witness ==
    /\ Analysed
    /\ Len(definitions[3].value.cases) = 3
    /\ \A i \in 1..3 : definitions[3].value.cases[i].pattern.p # "EnumVariant"
    /\ infer_expression_type(symbol_table, definitions[3].value.cases[1].body) = TNumber
    /\ infer_expression_type(symbol_table, definitions[3].value.cases[2].body) = TString
    /\ infer_expression_type(symbol_table, definitions[3].value.cases[3].body) = TNumber
    /\ resolve(symbol_table, "r").ty = TError

\* The number of DuplicateDeclaration diagnostics in a list.
DuplicateDeclarations(errs) ==
    Cardinality({ i \in 1..Len(errs) : errs[i].error_type = "DuplicateDeclaration" })

\* C27: during check_program every definition whose name is already defined
\* in the global scope, whatever its kind, adds exactly one
\* DuplicateDeclaration diagnostic, and a definition with a new name adds none.
C27_EveryRejectedDefineIsReported ==
    [][ChecksDefinition =>
           DuplicateDeclarations(g_errors') =
               DuplicateDeclarations(g_errors)
                   + (IF resolve(symbol_table, definitions[g_next].name) # NoSymbol
                      THEN 1 ELSE 0)]_vars

\* The sequence is straight-line code: it holds no label and no jump.
IsStraightLine(instructions) ==
    \A i \in 1..Len(instructions) :
        instructions[i].op \notin {"Label", "Jump", "JumpIfFalse"}

\* Running instructions i.. on an abstract stack of the given depth never
\* finds too few values: a Store or Return needs one, an arithmetic
\* instruction two; PushI64 and Load produce one.  Return ends the run.
RECURSIVE StackSafe(_, _, _)
StackSafe(instructions, i, depth) ==
    IF i > Len(instructions) THEN TRUE
    ELSE CASE instructions[i].op \in {"PushI64", "Load"} ->
                  StackSafe(instructions, i + 1, depth + 1)
           [] instructions[i].op = "Store" ->
                  depth >= 1 /\ StackSafe(instructions, i + 1, depth - 1)
           [] instructions[i].op = "Return" -> depth >= 1
           [] OTHER ->
                  depth >= 2 /\ StackSafe(instructions, i + 1, depth - 1)

\* C28: every straight-line instruction sequence lower_program returns
\* respects the operand-stack discipline: each Store and Return finds at
\* least one value and each arithmetic instruction at least two, so the Store
\* of a let's statement is preceded by a value its initializer produced.
C28_StackDiscipline ==
    Returned =>
        \A k \in 1..Len(sequences) :
            IsStraightLine(sequences[k].instructions)
                => StackSafe(sequences[k].instructions, 1, 0)

\* C29: the instruction sequences one lower_program call returns have
\* pairwise distinct names.
C29_SequenceNamesDistinct ==
    Returned =>
        \A j, k \in 1..Len(sequences) : sequences[j].name = sequences[k].name => j = k

\* The character of a digit value.
DigitChar(d) ==
    CASE d = 0 -> "0" [] d = 1 -> "1" [] d = 2 -> "2" [] d = 3 -> "3" [] d = 4 -> "4"
      [] d = 5 -> "5" [] d = 6 -> "6" [] d = 7 -> "7" [] d = 8 -> "8" [] OTHER -> "9"

\* The decimal numeral of a natural number.
RECURSIVE Numeral(_)
Numeral(n) == IF n < 10 THEN <<DigitChar(n)>> ELSE Numeral(n \div 10) \o <<DigitChar(n % 10)>>

\* The definition is a top-level let's statement of a number literal the
\* Scribe can produce: a non-empty run of ASCII digits.
IsLetOfDigitRun(def) ==
    /\ def.def = "Let"
    /\ def.value.e = "Number"
    /\ def.value.v # <<>>
    /\ \A i \in 1..Len(def.value.v) : IsDigit(def.value.v[i])

\* C30: lowering a number literal, a non-empty run of digits, emits
\* PushI64(v) with v the decimal value of the run: the numeral of v is the
\* run without its leading zeros; here for the initializer of a let's
\* statement, whose Store follows.
C30_NumberLiteralKeepsItsValue ==
    [][(LowersDefinition /\ IsLetOfDigitRun(definitions[l_next])) =>
           /\ Len(main_seq'.instructions) = Len(main_seq.instructions) + 2
           /\ main_seq'.instructions[Len(main_seq'.instructions) - 1].op = "PushI64"
           /\ main_seq'.instructions[Len(main_seq'.instructions) - 1].n >= 0
           /\ Numeral(main_seq'.instructions[Len(main_seq'.instructions) - 1].n)
                  = StripLeadingZeros(definitions[l_next].value.v)]_vars

====
